---- MODULE Spec2Model ----
(***************************************************************************)
(* Dual-stream comparison engine of ki-meetup: the GET stream route        *)
(* (src/src/app/actions.ts, GET / streamModel / saveStreamResults), the    *)
(* non-streaming server action createParallelChat, the model table and     *)
(* the cost functions they use.                                            *)
(*                                                                         *)
(* Encodings.                                                              *)
(*   text        a sequence of one-character strings ("" is <<>>)          *)
(*   T | null    <<>> for null/absent, <<v>> for the value v               *)
(*   money       integer micro-dollars (1e-6 USD), the 6 decimals that     *)
(*               toFixed(6) keeps; prices are nano-dollars per token       *)
(*               (USD per 1K tokens * 1e6)                                 *)
(* The controller's one queue is kept as its projection on each slot tag:  *)
(* the route never reads the queue, and the order between events of        *)
(* different slots is the order of the actions that enqueue them.          *)
(* One JavaScript continuation (the code between two awaits) is one        *)
(* action: the runtime is single-threaded.                                 *)
(***************************************************************************)
EXTENDS Integers, Sequences, FiniteSets, TLC

\* Largest number of chunks one backend stream delivers in the model.
MaxChunks == 2

Slots == {"model1", "model2"}

Other(s) == IF s = "model1" THEN "model2" ELSE "model1"

NULL == <<>>

Some(v) == <<v>>

---------------------------------------------------------------------------
(* lib/models: the model table                                             *)

OPENAI_MODELS ==
  << [id |-> "gpt-4o",        name |-> "gpt-4o",        provider |-> "openai",
      pricing |-> [input |-> 5000,  output |-> 15000]],
     [id |-> "gpt-4o-mini",   name |-> "gpt-4o-mini",   provider |-> "openai",
      pricing |-> [input |-> 150,   output |-> 600]],
     [id |-> "gpt-4-turbo",   name |-> "gpt-4-turbo",   provider |-> "openai",
      pricing |-> [input |-> 10000, output |-> 30000]],
     [id |-> "gpt-3.5-turbo", name |-> "gpt-3.5-turbo", provider |-> "openai",
      pricing |-> [input |-> 1500,  output |-> 2000]] >>

ANTHROPIC_MODELS ==
  << [id |-> "claude-3-5-sonnet-20241022", name |-> "claude-3-5-sonnet-20241022",
      provider |-> "anthropic", pricing |-> [input |-> 3000,  output |-> 15000]],
     [id |-> "claude-3-5-haiku-20241022",  name |-> "claude-3-5-haiku-20241022",
      provider |-> "anthropic", pricing |-> [input |-> 800,   output |-> 4000]],
     [id |-> "claude-3-opus-20240229",     name |-> "claude-3-opus-20240229",
      provider |-> "anthropic", pricing |-> [input |-> 15000, output |-> 75000]] >>

ALL_MODELS == OPENAI_MODELS \o ANTHROPIC_MODELS

\* A lookup that resolves every id (an unknown id falls back to the first entry).
getModelConfig_AnyId(modelId) ==
  LET hits == {i \in 1..Len(ALL_MODELS) : ALL_MODELS[i].id = modelId}
  IN  IF hits = {} THEN Some(ALL_MODELS[1])
      ELSE Some(ALL_MODELS[CHOOSE i \in hits : \A j \in hits : i <= j])

\* ALL_MODELS.find(model => model.id === modelId) || null
getModelConfig(modelId) ==
  LET hits == {i \in 1..Len(ALL_MODELS) : ALL_MODELS[i].id = modelId}
  IN  IF hits = {} THEN NULL
      ELSE Some(ALL_MODELS[CHOOSE i \in hits : \A j \in hits : i <= j])

\* The factories throw when the provider's API key is not in the environment.
createOpenAIModel(modelName, e) ==
  IF ~e.OPENAI_API_KEY
  THEN [ok |-> FALSE, error |-> "OPENAI_API_KEY ist nicht gesetzt"]
  ELSE [ok |-> TRUE, model |-> modelName]

createAnthropicModel(modelName, e) ==
  IF ~e.ANTHROPIC_API_KEY
  THEN [ok |-> FALSE, error |-> "ANTHROPIC_API_KEY ist nicht gesetzt"]
  ELSE [ok |-> TRUE, model |-> modelName]

\* ok |-> FALSE is a thrown Error carrying the message.
createModelInstance(modelId, e) ==
  LET config == getModelConfig(modelId)
  IN  IF config = NULL THEN [ok |-> FALSE, error |-> "Unknown model"]
      ELSE IF config[1].provider = "openai" THEN createOpenAIModel(config[1].name, e)
      ELSE IF config[1].provider = "anthropic" THEN createAnthropicModel(config[1].name, e)
      ELSE [ok |-> FALSE, error |-> "Unknown provider"]

\* A usage payload: a field that is missing reads as 0 (usage?.x || 0).
parseTokenUsage(usage, provider) ==
  IF provider = "openai"
  THEN [input |-> usage.prompt_tokens, output |-> usage.completion_tokens,
        total |-> usage.total_tokens]
  ELSE IF provider = "anthropic"
  THEN [input |-> usage.input_tokens, output |-> usage.output_tokens,
        total |-> usage.input_tokens + usage.output_tokens]
  ELSE [input |-> 0, output |-> 0, total |-> 0]

---------------------------------------------------------------------------
(* lib/pricing                                                             *)

\* The costs whose exact value lies halfway between two 6-decimal numbers
\* while the double the code computes lies below it, so that toFixed(6)
\* rounds down: <<model id, input tokens, output tokens, field>>, for token
\* counts up to 7. Every other halfway double lies on or above the midpoint.
DoubleBelowMidpoint ==
  { <<"gpt-4o-mini", 2, 7, "totalCost">>,
    <<"gpt-3.5-turbo", 1, 1, "totalCost">>, <<"gpt-3.5-turbo", 1, 2, "totalCost">>,
    <<"gpt-3.5-turbo", 1, 6, "totalCost">>, <<"gpt-3.5-turbo", 3, 2, "totalCost">>,
    <<"gpt-3.5-turbo", 3, 4, "totalCost">>, <<"gpt-3.5-turbo", 3, 7, "totalCost">>,
    <<"gpt-3.5-turbo", 5, 3, "totalCost">>, <<"gpt-3.5-turbo", 5, 6, "totalCost">>,
    <<"gpt-3.5-turbo", 7, 7, "totalCost">> }

\* A conversion that truncates to six decimals instead of rounding.
toFixed6_Floor(nano, below) == nano \div 1000

\* parseFloat(x.toFixed(6)) of x nano-dollars, in micro-dollars: the nearest
\* 6-decimal number to the double; below tells on which side of a midpoint
\* the double lies.
toFixed6(nano, below) ==
  IF nano % 1000 = 500 /\ below THEN nano \div 1000 ELSE (nano + 500) \div 1000

\* A calculation whose total is the difference of the two costs.
calculateCost_Minus(tokenUsage, modelId) ==
  LET modelConfig == getModelConfig(modelId)
  IN  IF modelConfig = NULL
      THEN [ok |-> FALSE, error |-> "Unknown model for cost calculation"]
      ELSE LET pricing    == modelConfig[1].pricing
               inputCost  == tokenUsage.input * pricing.input
               outputCost == tokenUsage.output * pricing.output
               totalCost  == IF inputCost >= outputCost THEN inputCost - outputCost
                             ELSE 0
               below(f)   == <<modelId, tokenUsage.input, tokenUsage.output, f>>
                               \in DoubleBelowMidpoint
           IN  [ok |-> TRUE,
                inputTokens |-> tokenUsage.input,
                outputTokens |-> tokenUsage.output,
                inputCost |-> toFixed6(inputCost, below("inputCost")),
                outputCost |-> toFixed6(outputCost, below("outputCost")),
                totalCost |-> toFixed6(totalCost, below("totalCost"))]

\* A calculation whose total leaves out the output cost.
calculateCost_InputOnly(tokenUsage, modelId) ==
  LET modelConfig == getModelConfig(modelId)
  IN  IF modelConfig = NULL
      THEN [ok |-> FALSE, error |-> "Unknown model for cost calculation"]
      ELSE LET pricing    == modelConfig[1].pricing
               inputCost  == tokenUsage.input * pricing.input
               outputCost == tokenUsage.output * pricing.output
               totalCost  == inputCost
               below(f)   == <<modelId, tokenUsage.input, tokenUsage.output, f>>
                               \in DoubleBelowMidpoint
           IN  [ok |-> TRUE,
                inputTokens |-> tokenUsage.input,
                outputTokens |-> tokenUsage.output,
                inputCost |-> toFixed6(inputCost, below("inputCost")),
                outputCost |-> toFixed6(outputCost, below("outputCost")),
                totalCost |-> toFixed6(totalCost, below("totalCost"))]

\* ok |-> FALSE is the thrown Error; ok |-> TRUE the returned CostCalculation.
calculateCost(tokenUsage, modelId) ==
  LET modelConfig == getModelConfig(modelId)
  IN  IF modelConfig = NULL
      THEN [ok |-> FALSE, error |-> "Unknown model for cost calculation"]
      ELSE LET pricing    == modelConfig[1].pricing
               inputCost  == tokenUsage.input * pricing.input
               outputCost == tokenUsage.output * pricing.output
               totalCost  == inputCost + outputCost
               below(f)   == <<modelId, tokenUsage.input, tokenUsage.output, f>>
                               \in DoubleBelowMidpoint
           IN  [ok |-> TRUE,
                inputTokens |-> tokenUsage.input,
                outputTokens |-> tokenUsage.output,
                inputCost |-> toFixed6(inputCost, below("inputCost")),
                outputCost |-> toFixed6(outputCost, below("outputCost")),
                totalCost |-> toFixed6(totalCost, below("totalCost"))]

\* Defined when calculateCost returns; its throw propagates to the caller.
calculateLiveCost(inputTokens, outputTokens, modelId) ==
  calculateCost([input |-> inputTokens, output |-> outputTokens,
                 total |-> inputTokens + outputTokens], modelId).totalCost

---------------------------------------------------------------------------
(* State                                                                   *)

VARIABLES
  entry,     \* the entry point this request came through
  req,       \* the request: [session, model1, model2, prompt]
  env,       \* the process's surroundings: which API keys are set; for the
             \* history calls, whether the database answers
  pc,        \* position of the handler (GET's start(), createParallelChat)
  reply,     \* what the caller got back: null, an HTTP response, a ServerActionResult
  slot,      \* per slot: the locals of its streamModel call and its promise
  backend,   \* per slot: the backend stream, as the adapter sees it
  ctrl,      \* the ReadableStream controller: "open", "closed", "cancelled"
  events,    \* per slot tag: the events enqueued on the controller, in order
  db,        \* the rows of prisma.prompt, in creation order
  log,       \* the console.error calls made, by their message
  invoke,    \* createParallelChat: per slot, the promise of modelInstance.invoke
  responses, \* createParallelChat: the two ChatResponses, once processed
  memo,      \* a caller of lib/pricing: a result it has kept, or null
  client,    \* the browser: the SSEStreamingClient and its EventSource, or a
             \* StreamTimeout and its timers
  page,      \* the browser: the state of the Home component
  taken      \* per slot tag: how many of its events the consumer has read

vars == <<entry, req, env, pc, reply, slot, backend, ctrl, events, db, log,
          invoke, responses, memo, client, page, taken>>

clientVars == <<client, page, taken>>

\* No browser is part of the run.
NoClient == [eventSource |-> "absent"]

NoPage == [isSubmitting |-> FALSE]

streamVars == <<slot, backend, ctrl, events>>

chatVars == <<invoke, responses>>

Entries == {"GET", "createParallelChat", "createStreamingChat"}

\* Model ids a request may name: two registered ids, an unregistered one, none.
RequestModels == {"gpt-4o-mini", "claude-3-5-haiku-20241022", "no-such-model", ""}

\* Prompts a request may carry: missing/empty, whitespace only, a text.
Prompts == {<<>>, <<" ">>, <<"h", "i">>}

Requests ==
  [session : BOOLEAN, model1 : RequestModels, model2 : RequestModels, prompt : Prompts]

Envs == [OPENAI_API_KEY : BOOLEAN, ANTHROPIC_API_KEY : BOOLEAN]

\* Increments a backend chunk may carry; <<>> is a chunk without content.
Deltas == {<<>>, <<"H", "i">>, <<"!">>}

modelIdOf(s) == IF s = "model1" THEN req.model1 ELSE req.model2

IdleSlot ==
  [st |-> "idle", fullContent |-> <<>>, tokenCount |-> 0, inputTokens |-> 0,
   outputTokens |-> 0, chunks |-> 0, value |-> NULL]

Init ==
  /\ entry \in Entries
  /\ req \in Requests
  /\ env \in Envs
  /\ pc = "received"
  /\ reply = NULL
  /\ slot = [s \in Slots |-> IdleSlot]
  /\ backend = [s \in Slots |-> "none"]
  /\ ctrl = "none"
  /\ events = [s \in Slots |-> <<>>]
  /\ db = <<>>
  /\ log = {}
  /\ invoke = [s \in Slots |-> [st |-> "none"]]
  /\ responses = NULL
  /\ memo = NULL
  /\ client = NoClient
  /\ page = NoPage
  /\ taken = [s \in Slots |-> 0]

---------------------------------------------------------------------------
(* Text helpers                                                            *)

\* The characters String.prototype.trim strips, as far as texts here use them.
WhiteSpace == {" ", "\t", "\n"}

RECURSIVE trimStart(_)
trimStart(t) == IF t # <<>> /\ Head(t) \in WhiteSpace THEN trimStart(Tail(t)) ELSE t

RECURSIVE trimEnd(_)
trimEnd(t) ==
  IF t # <<>> /\ t[Len(t)] \in WhiteSpace THEN trimEnd(SubSeq(t, 1, Len(t) - 1)) ELSE t

\* String.prototype.trim
trim(t) == trimEnd(trimStart(t))

---------------------------------------------------------------------------
(* lib/tokenizer                                                           *)

\* The characters of a model id, for the ids that occur in this module.
chars(modelId) ==
  CASE modelId = "gpt-4o" ->
      <<"g", "p", "t", "-", "4", "o">>
    [] modelId = "gpt-4o-mini" ->
      <<"g", "p", "t", "-", "4", "o", "-", "m", "i", "n", "i">>
    [] modelId = "gpt-4-turbo" ->
      <<"g", "p", "t", "-", "4", "-", "t", "u", "r", "b", "o">>
    [] modelId = "gpt-3.5-turbo" ->
      <<"g", "p", "t", "-", "3", ".", "5", "-", "t", "u", "r", "b", "o">>
    [] modelId = "claude-3-5-sonnet-20241022" ->
      <<"c", "l", "a", "u", "d", "e", "-", "3", "-", "5", "-", "s", "o", "n", "n", "e", "t", "-", "2", "0", "2", "4", "1", "0", "2", "2">>
    [] modelId = "claude-3-5-haiku-20241022" ->
      <<"c", "l", "a", "u", "d", "e", "-", "3", "-", "5", "-", "h", "a", "i", "k", "u", "-", "2", "0", "2", "4", "1", "0", "2", "2">>
    [] modelId = "claude-3-opus-20240229" ->
      <<"c", "l", "a", "u", "d", "e", "-", "3", "-", "o", "p", "u", "s", "-", "2", "0", "2", "4", "0", "2", "2", "9">>
    [] modelId = "no-such-model" ->
      <<"n", "o", "-", "s", "u", "c", "h", "-", "m", "o", "d", "e", "l">>
    [] modelId = "" ->
      <<>>
    [] modelId = "my-openai-model" ->
      <<"m", "y", "-", "o", "p", "e", "n", "a", "i", "-", "m", "o", "d", "e", "l">>
    [] modelId = "x-anthropic" ->
      <<"x", "-", "a", "n", "t", "h", "r", "o", "p", "i", "c">>
    [] modelId = "llama-3" ->
      <<"l", "l", "a", "m", "a", "-", "3">>

\* String.prototype.startsWith and String.prototype.includes.
startsWith(t, prefix) ==
  Len(t) >= Len(prefix) /\ SubSeq(t, 1, Len(prefix)) = prefix

includes(t, sub) ==
  \E i \in 0..(Len(t) - Len(sub)) : SubSeq(t, i + 1, i + Len(sub)) = sub

\* Characters per token, in tenths of a character (3.8 is 38).
TOKEN_ESTIMATION ==
  [OPENAI_CHARS_PER_TOKEN |-> 40, ANTHROPIC_CHARS_PER_TOKEN |-> 38,
   DEFAULT_CHARS_PER_TOKEN |-> 40]

\* Math.ceil(length / charsPerToken), charsPerToken given in tenths.
ceilPerToken(length, tenths) == (10 * length + tenths - 1) \div tenths

\* A tokenizer that divides by the default ratio.
countAnthropicTokens_Default(text) ==
  IF trim(text) = <<>> THEN 0
  ELSE ceilPerToken(Len(trim(text)), TOKEN_ESTIMATION.DEFAULT_CHARS_PER_TOKEN)

countOpenAITokens(text) ==
  IF trim(text) = <<>> THEN 0
  ELSE ceilPerToken(Len(trim(text)), TOKEN_ESTIMATION.OPENAI_CHARS_PER_TOKEN)

countAnthropicTokens(text) ==
  IF trim(text) = <<>> THEN 0
  ELSE ceilPerToken(Len(trim(text)), TOKEN_ESTIMATION.ANTHROPIC_CHARS_PER_TOKEN)

countTokens(text, modelId) ==
  IF text = <<>> THEN 0
  ELSE IF startsWith(chars(modelId), <<"g", "p", "t", "-">>)
          \/ includes(chars(modelId), <<"o", "p", "e", "n", "a", "i">>)
  THEN countOpenAITokens(text)
  ELSE IF startsWith(chars(modelId), <<"c", "l", "a", "u", "d", "e", "-">>)
          \/ includes(chars(modelId),
                      <<"a", "n", "t", "h", "r", "o", "p", "i", "c">>)
  THEN countAnthropicTokens(text)
  ELSE ceilPerToken(Len(trim(text)), TOKEN_ESTIMATION.DEFAULT_CHARS_PER_TOKEN)

createTokenUsage(input, output, modelId) ==
  LET inputTokens  == countTokens(input, modelId)
      outputTokens == countTokens(output, modelId)
  IN  [input |-> inputTokens, output |-> outputTokens,
       total |-> inputTokens + outputTokens]

\* An update that counts the chunk and drops what was counted before.
updateTokenUsage_Replacing(currentUsage, newOutputChunk, modelId) ==
  LET additionalOutputTokens == countTokens(newOutputChunk, modelId)
  IN  [input |-> currentUsage.input,
       output |-> additionalOutputTokens,
       total |-> currentUsage.input + currentUsage.output + additionalOutputTokens]

updateTokenUsage(currentUsage, newOutputChunk, modelId) ==
  LET additionalOutputTokens == countTokens(newOutputChunk, modelId)
  IN  [input |-> currentUsage.input,
       output |-> currentUsage.output + additionalOutputTokens,
       total |-> currentUsage.input + currentUsage.output + additionalOutputTokens]

\* truncateToTokenLimit: Math.floor(text.length * ((maxTokens * 0.9) /
\* currentTokens)) is the exact floor for texts shorter than 40 characters.
truncateToTokenLimit(text, modelId, maxTokens) ==
  LET currentTokens == countTokens(text, modelId)
  IN  IF currentTokens <= maxTokens
      THEN text
      ELSE LET targetLength == (Len(text) * 9 * maxTokens) \div (10 * currentTokens)
           IN  SubSeq(text, 1, targetLength) \o <<".", ".", ".">>

---------------------------------------------------------------------------
(* The GET stream route                                                    *)

StreamEvent(type, modelKey, delta, inputTokens, outputTokens, cost, isComplete, error) ==
  [type |-> type, model |-> modelKey,
   data |-> [model |-> modelIdOf(modelKey), delta |-> delta,
             tokens |-> [input |-> inputTokens, output |-> outputTokens,
                         total |-> inputTokens + outputTokens],
             cost |-> cost, isComplete |-> isComplete, error |-> error]]

\* controller.enqueue of an event: it joins the events of its slot.
sendEvent(event) == [events EXCEPT ![event.model] = Append(@, event)]

StartEvent(modelKey) == StreamEvent("start", modelKey, <<>>, 0, 0, 0, FALSE, NULL)

\* controller.enqueue throws once the stream is no longer open.
canEnqueue == ctrl = "open"

\* The validation of GET: the 400 body, or null when the request is accepted.
GETValidation(r) ==
  IF ~r.session \/ r.model1 = "" \/ r.model2 = "" \/ r.prompt = <<>>
  THEN Some("Fehlende Parameter")
  ELSE IF getModelConfig(r.model1) = NULL \/ getModelConfig(r.model2) = NULL
  THEN Some("Ungueltige Model-IDs")
  ELSE NULL

\* GET up to its return, with the synchronous part of start(): the two model
\* instances, the two start events and both streamModel calls up to their
\* first await; or the outer catch when an instance cannot be created.
GETRequest ==
  /\ entry = "GET" /\ pc = "received"
  /\ UNCHANGED <<memo, clientVars, entry, req, env, db, chatVars>>
  /\ IF GETValidation(req) # NULL
     THEN /\ reply' = Some([status |-> 400, body |-> GETValidation(req)[1]])
          /\ pc' = "rejected"
          /\ UNCHANGED <<streamVars, log>>
     ELSE LET model1Instance == createModelInstance(req.model1, env)
              model2Instance == createModelInstance(req.model2, env)
              thrown == IF ~model1Instance.ok THEN model1Instance.error
                        ELSE model2Instance.error
          IN  /\ reply' = Some([status |-> 200, body |-> "text/event-stream"])
              /\ IF model1Instance.ok /\ model2Instance.ok
                 THEN /\ events' = [s \in Slots |-> <<StartEvent(s)>>]
                      /\ slot' = [s \in Slots |-> [IdleSlot EXCEPT !.st = "opening"]]
                      /\ backend' = [s \in Slots |-> "live"]
                      /\ ctrl' = "open"
                      /\ pc' = "streaming"
                      /\ UNCHANGED log
                 ELSE /\ events' = sendEvent(StreamEvent("error", "model1", <<>>, 0, 0, 0,
                                                  TRUE, Some(thrown)))
                      /\ ctrl' = "closed"
                      /\ pc' = "closed"
                      /\ log' = log \cup {"Streaming error"}
                      /\ UNCHANGED <<slot, backend>>

---------------------------------------------------------------------------
(* streamModel: one call per slot, each continuation one action            *)

\* A slot whose promise has settled.
Settled(s) == slot[s].st \in {"fulfilled", "rejected"}

\* A slot awaiting its backend, whose backend is still producing.
Awaiting(s, st) == slot[s].st = st /\ backend[s] = "live"

\* The catch block of streamModel for the locals sl: the error event is
\* enqueued (unless enqueue itself throws) and the error is rethrown, so the
\* promise rejects either way.
\* A catch block that reports no usage: zero tokens and zero cost.
streamModelCatch_Zero(s, sl, message) ==
  /\ events' = IF canEnqueue
               THEN sendEvent(StreamEvent("error", s, <<>>, 0, 0, 0, TRUE, Some(message)))
               ELSE events
  /\ slot' = [slot EXCEPT ![s] = [sl EXCEPT !.st = "rejected"]]
  /\ log' = log \cup {"Streaming error for model"}

streamModelCatch(s, sl, message) ==
  /\ events' = IF canEnqueue
               THEN sendEvent(
                      StreamEvent("error", s, <<>>, sl.inputTokens, sl.outputTokens,
                        calculateLiveCost(sl.inputTokens, sl.outputTokens, modelIdOf(s)),
                        TRUE, Some(message)))
               ELSE events
  /\ slot' = [slot EXCEPT ![s] = [sl EXCEPT !.st = "rejected"]]
  /\ log' = log \cup {"Streaming error for model"}

\* await modelInstance.stream([message]) resolves.
StreamOpened(s) ==
  /\ Awaiting(s, "opening")
  /\ slot' = [slot EXCEPT ![s].st = "streaming"]
  /\ UNCHANGED <<memo, clientVars, entry, req, env, pc, reply, backend, ctrl, events, db, log, chatVars>>

\* await modelInstance.stream([message]) rejects: the stream cannot be opened.
StreamOpenFailed(s) ==
  /\ Awaiting(s, "opening")
  /\ streamModelCatch(s, slot[s], "stream open failed")
  /\ backend' = [backend EXCEPT ![s] = "failed"]
  /\ UNCHANGED <<memo, clientVars, entry, req, env, pc, reply, ctrl, db, chatVars>>

\* A catch block that also ends the sibling's stream.
StreamError_CancelSibling(s) ==
  /\ Awaiting(s, "streaming")
  /\ events' = IF canEnqueue
               THEN sendEvent(
                      StreamEvent("error", s, <<>>, slot[s].inputTokens,
                        slot[s].outputTokens,
                        calculateLiveCost(slot[s].inputTokens, slot[s].outputTokens,
                                          modelIdOf(s)),
                        TRUE, Some("backend error")))
               ELSE events
  /\ slot' = [t \in Slots |->
               IF t = s \/ ~Settled(t) THEN [slot[t] EXCEPT !.st = "rejected"]
               ELSE slot[t]]
  /\ log' = log \cup {"Streaming error for model"}
  /\ backend' = [backend EXCEPT ![s] = "failed"]
  /\ UNCHANGED <<memo, clientVars, entry, req, env, pc, reply, ctrl, db, chatVars>>

\* The backend's stream throws while being iterated.
StreamError(s) ==
  /\ Awaiting(s, "streaming")
  /\ streamModelCatch(s, slot[s], "backend error")
  /\ backend' = [backend EXCEPT ![s] = "failed"]
  /\ UNCHANGED <<memo, clientVars, entry, req, env, pc, reply, ctrl, db, chatVars>>

\* A loop that counts a chunk with an empty delta as an output token.
StreamChunk_CountsEmpty(s, delta) ==
  /\ Awaiting(s, "streaming")
  /\ slot[s].chunks < MaxChunks
  /\ LET seen == [slot[s] EXCEPT !.chunks = @ + 1, !.outputTokens = @ + 1]
         sl   == [seen EXCEPT !.fullContent = @ \o delta,
                              !.tokenCount = @ + 1]
         liveCost == calculateLiveCost(sl.inputTokens, sl.outputTokens, modelIdOf(s))
     IN  IF delta = <<>>
         THEN /\ slot' = [slot EXCEPT ![s] = seen]
              /\ UNCHANGED <<events, log>>
         ELSE IF canEnqueue
         THEN /\ slot' = [slot EXCEPT ![s] = sl]
              /\ events' = sendEvent(
                             StreamEvent("token", s, delta, sl.inputTokens,
                                         sl.outputTokens, liveCost, FALSE, NULL))
              /\ UNCHANGED log
         ELSE streamModelCatch(s, sl, "enqueue failed")
  /\ UNCHANGED <<memo, clientVars, entry, req, env, pc, reply, backend, ctrl, db, chatVars>>

\* A loop that sets the output count to the length of the current increment
\* instead of counting the increments.
StreamChunk_DeltaCount(s, delta) ==
  /\ Awaiting(s, "streaming")
  /\ slot[s].chunks < MaxChunks
  /\ LET seen == [slot[s] EXCEPT !.chunks = @ + 1]
         sl   == [seen EXCEPT !.fullContent = @ \o delta,
                              !.tokenCount = @ + 1,
                              !.outputTokens = Len(delta)]
         liveCost == calculateLiveCost(sl.inputTokens, sl.outputTokens, modelIdOf(s))
     IN  IF delta = <<>>
         THEN /\ slot' = [slot EXCEPT ![s] = seen]
              /\ UNCHANGED <<events, log>>
         ELSE IF canEnqueue
         THEN /\ slot' = [slot EXCEPT ![s] = sl]
              /\ events' = sendEvent(
                             StreamEvent("token", s, delta, sl.inputTokens,
                                         sl.outputTokens, liveCost, FALSE, NULL))
              /\ UNCHANGED log
         ELSE streamModelCatch(s, sl, "enqueue failed")
  /\ UNCHANGED <<memo, clientVars, entry, req, env, pc, reply, backend, ctrl, db, chatVars>>

\* One iteration of for await: a chunk whose content is delta. An empty delta
\* is skipped; otherwise the locals are updated and the token event enqueued.
\* When enqueue throws, control passes to the catch block with the updated locals.
StreamChunk(s, delta) ==
  /\ Awaiting(s, "streaming")
  /\ slot[s].chunks < MaxChunks
  /\ LET seen == [slot[s] EXCEPT !.chunks = @ + 1]
         sl   == [seen EXCEPT !.fullContent = @ \o delta,
                              !.tokenCount = @ + 1,
                              !.outputTokens = @ + 1]
         liveCost == calculateLiveCost(sl.inputTokens, sl.outputTokens, modelIdOf(s))
     IN  IF delta = <<>>
         THEN /\ slot' = [slot EXCEPT ![s] = seen]
              /\ UNCHANGED <<events, log>>
         ELSE IF canEnqueue
         THEN /\ slot' = [slot EXCEPT ![s] = sl]
              /\ events' = sendEvent(
                             StreamEvent("token", s, delta, sl.inputTokens,
                                         sl.outputTokens, liveCost, FALSE, NULL))
              /\ UNCHANGED log
         ELSE streamModelCatch(s, sl, "enqueue failed")
  /\ UNCHANGED <<memo, clientVars, entry, req, env, pc, reply, backend, ctrl, db, chatVars>>

\* The backend's stream ends: the complete event, then the return value.
StreamEnd(s) ==
  /\ Awaiting(s, "streaming")
  /\ LET sl == slot[s]
         finalUsage == [input |-> sl.inputTokens, output |-> sl.outputTokens,
                        total |-> sl.inputTokens + sl.outputTokens]
         finalCost == calculateLiveCost(sl.inputTokens, sl.outputTokens, modelIdOf(s))
     IN  IF canEnqueue
         THEN /\ events' = sendEvent(
                             StreamEvent("complete", s, <<>>, sl.inputTokens,
                                         sl.outputTokens, finalCost, TRUE, NULL))
              /\ slot' = [slot EXCEPT ![s] =
                           [sl EXCEPT !.st = "fulfilled",
                                      !.value = Some([content |-> sl.fullContent,
                                                      tokens |-> finalUsage,
                                                      cost |-> finalCost])]]
              /\ UNCHANGED log
         ELSE streamModelCatch(s, sl, "enqueue failed")
  /\ backend' = [backend EXCEPT ![s] = "ended"]
  /\ UNCHANGED <<memo, clientVars, entry, req, env, pc, reply, ctrl, db, chatVars>>

\* The backend stops producing without ending or failing. streamModel sets
\* no timeout, so nothing wakes the slot again.
BackendStall(s) ==
  /\ backend[s] = "live"
  /\ slot[s].st \in {"opening", "streaming"}
  /\ backend' = [backend EXCEPT ![s] = "stalled"]
  /\ UNCHANGED <<memo, clientVars, entry, req, env, pc, reply, slot, ctrl, events, db, log, chatVars>>

\* The consumer goes away: the runtime cancels the ReadableStream. The stream
\* has no cancel handler, so nothing else changes.
Disconnect ==
  /\ ctrl = "open"
  /\ ctrl' = "cancelled"
  /\ UNCHANGED <<memo, clientVars, entry, req, env, pc, reply, slot, backend, events, db, log, chatVars>>

---------------------------------------------------------------------------
(* GET after Promise.allSettled: saveStreamResults, controller.close       *)

\* A row written from the slots' partial state whatever their outcome.
streamResultsRow_Partial(prompt, model1Id, model2Id, result1, result2) ==
  [content |-> prompt, model1 |-> model1Id, model2 |-> model2Id,
   response1 |-> Some(result1.fullContent),
   response2 |-> Some(result2.fullContent),
   cost1 |-> Some(calculateLiveCost(result1.inputTokens, result1.outputTokens, model1Id)),
   cost2 |-> Some(calculateLiveCost(result2.inputTokens, result2.outputTokens, model2Id))]

\* The data saveStreamResults hands to prisma.prompt.create; resultN is the
\* settled promise of slot N.
streamResultsRow(prompt, model1Id, model2Id, result1, result2) ==
  [content |-> prompt, model1 |-> model1Id, model2 |-> model2Id,
   response1 |-> IF result1.st = "fulfilled" THEN Some(result1.value[1].content) ELSE NULL,
   response2 |-> IF result2.st = "fulfilled" THEN Some(result2.value[1].content) ELSE NULL,
   cost1 |-> IF result1.st = "fulfilled" THEN Some(result1.value[1].cost) ELSE NULL,
   cost2 |-> IF result2.st = "fulfilled" THEN Some(result2.value[1].cost) ELSE NULL]

\* controller.close() after saveStreamResults. On a stream that is no longer
\* open it throws; the outer catch logs, its sendEvent throws too, and start()
\* rejects without emitting anything.
closeStream(logged) ==
  IF ctrl = "open"
  THEN /\ ctrl' = "closed"
       /\ pc' = "closed"
       /\ log' = logged
  ELSE /\ pc' = "errored"
       /\ log' = logged \cup {"Streaming error"}
       /\ UNCHANGED ctrl

\* A join that resumes as soon as one of the two promises has settled.
AllSettled_Any ==
  /\ entry = "GET" /\ pc = "streaming"
  /\ \E s \in Slots : Settled(s)
  /\ pc' = "saving"
  /\ UNCHANGED <<memo, clientVars, entry, req, env, reply, streamVars, db, log, chatVars>>

\* await Promise.allSettled([...]) resumes; saveStreamResults builds the row
\* and awaits prisma.prompt.create.
AllSettled ==
  /\ entry = "GET" /\ pc = "streaming"
  /\ \A s \in Slots : Settled(s)
  /\ pc' = "saving"
  /\ UNCHANGED <<memo, clientVars, entry, req, env, reply, streamVars, db, log, chatVars>>

\* A write that is issued twice.
SaveOk_Twice ==
  /\ entry = "GET" /\ pc = "saving"
  /\ LET row == streamResultsRow(req.prompt, req.model1, req.model2,
                                 slot["model1"], slot["model2"])
     IN  db' = db \o <<row, row>>
  /\ closeStream(log)
  /\ UNCHANGED <<memo, clientVars, entry, req, env, reply, slot, backend, events, chatVars>>

\* prisma.prompt.create resolves: the row exists; then the stream is closed.
SaveOk ==
  /\ entry = "GET" /\ pc = "saving"
  /\ db' = Append(db, streamResultsRow(req.prompt, req.model1, req.model2,
                                       slot["model1"], slot["model2"]))
  /\ closeStream(log)
  /\ UNCHANGED <<memo, clientVars, entry, req, env, reply, slot, backend, events, chatVars>>

\* A saveStreamResults without its try/catch: the rejection reaches the outer
\* catch of start(), which emits an error event and closes.
SaveFail_Propagates ==
  /\ entry = "GET" /\ pc = "saving"
  /\ IF canEnqueue
     THEN /\ events' = sendEvent( StreamEvent("error", "model1", <<>>, 0, 0, 0,
                                                  TRUE, Some("storage error")))
          /\ ctrl' = "closed"
          /\ pc' = "closed"
     ELSE /\ pc' = "errored"
          /\ UNCHANGED <<events, ctrl>>
  /\ log' = log \cup {"Streaming error"}
  /\ UNCHANGED <<memo, clientVars, entry, req, env, reply, slot, backend, db, chatVars>>

\* prisma.prompt.create rejects: saveStreamResults logs and returns normally;
\* then the stream is closed.
SaveFail ==
  /\ entry = "GET" /\ pc = "saving"
  /\ closeStream(log \cup {"Fehler beim Speichern der Stream-Resultate"})
  /\ UNCHANGED <<memo, clientVars, entry, req, env, reply, slot, backend, events, db, chatVars>>

---------------------------------------------------------------------------
(* createParallelChat                                                      *)

NoUsage ==
  [prompt_tokens |-> 0, completion_tokens |-> 0, total_tokens |-> 0,
   input_tokens |-> 0, output_tokens |-> 0]

\* What modelInstance.invoke may resolve with: content with LangChain's
\* usage_metadata, text with an OpenAI-style usage, and an empty message.
InvokeResponses ==
  { [content |-> <<"H", "i">>, text |-> <<>>,
     usage_metadata |-> Some([NoUsage EXCEPT !.input_tokens = 3, !.output_tokens = 2,
                                             !.total_tokens = 5]),
     usage |-> NULL, finish_reason |-> Some("length")],
    [content |-> <<>>, text |-> <<"!">>,
     usage_metadata |-> NULL,
     usage |-> Some([NoUsage EXCEPT !.prompt_tokens = 3, !.completion_tokens = 2,
                                    !.total_tokens = 5]),
     finish_reason |-> NULL],
    [content |-> <<>>, text |-> <<>>, usage_metadata |-> NULL, usage |-> NULL,
     finish_reason |-> NULL] }

\* a || b on texts and on nullable values: both are falsy exactly when <<>>.
orElse(a, b) == IF a # <<>> THEN a ELSE b

\* The ChatResponse of one settled invoke (id and timestamp left out).
processModelResult(result, modelId, modelConfig) ==
  LET baseResponse == [model |-> modelId, content |-> <<>>,
                       tokens |-> [input |-> 0, output |-> 0, total |-> 0],
                       cost |-> 0, finishReason |-> "error", error |-> NULL]
  IN  IF result.st = "rejected"
      THEN [baseResponse EXCEPT !.error = Some("Fehler bei Model")]
      ELSE LET response == result.value
               content == orElse(response.content, response.text)
               usage == orElse(orElse(response.usage_metadata, response.usage),
                               Some(NoUsage))[1]
               tokenUsage == parseTokenUsage(usage, modelConfig.provider)
               cost == calculateCost(tokenUsage, modelId)
           IN  IF ~cost.ok
               THEN [baseResponse EXCEPT !.error = Some("Fehler beim Verarbeiten der Antwort")]
               ELSE [baseResponse EXCEPT
                       !.content = content,
                       !.tokens = tokenUsage,
                       !.cost = cost.totalCost,
                       !.finishReason = orElse(response.finish_reason, Some("stop"))[1]]

\* The data saveToDatabase hands to prisma.prompt.create.
chatRow(request, response1, response2) ==
  [content |-> request.prompt, model1 |-> request.model1, model2 |-> request.model2,
   response1 |-> IF response1.error # NULL THEN NULL ELSE Some(response1.content),
   response2 |-> IF response2.error # NULL THEN NULL ELSE Some(response2.content),
   cost1 |-> IF response1.error # NULL THEN NULL ELSE Some(response1.cost),
   cost2 |-> IF response2.error # NULL THEN NULL ELSE Some(response2.cost)]

\* The validation of createParallelChat: the error, or null when accepted.
chatValidation(request) ==
  IF trim(request.prompt) = <<>> THEN Some("Prompt darf nicht leer sein")
  ELSE IF request.model1 = "" \/ request.model2 = ""
  THEN Some("Beide Modelle muessen ausgewaehlt werden")
  ELSE IF getModelConfig(request.model1) = NULL \/ getModelConfig(request.model2) = NULL
  THEN Some("Ungueltige Model-Auswahl")
  ELSE NULL

\* createParallelChat up to its first await: validation, the two model
\* instances (a throw is caught and returned as a failure), both invokes.
createParallelChat ==
  /\ entry = "createParallelChat" /\ pc = "received"
  /\ UNCHANGED <<memo, clientVars, entry, req, env, streamVars, db, responses>>
  /\ IF chatValidation(req) # NULL
     THEN /\ reply' = Some([success |-> FALSE, error |-> chatValidation(req)[1]])
          /\ pc' = "returned"
          /\ UNCHANGED <<invoke, log>>
     ELSE LET model1Instance == createModelInstance(req.model1, env)
              model2Instance == createModelInstance(req.model2, env)
          IN  IF model1Instance.ok /\ model2Instance.ok
              THEN /\ invoke' = [s \in Slots |-> [st |-> "pending"]]
                   /\ pc' = "invoking"
                   /\ UNCHANGED <<reply, log>>
              ELSE /\ reply' = Some([success |-> FALSE,
                                     error |-> IF ~model1Instance.ok
                                               THEN model1Instance.error
                                               ELSE model2Instance.error])
                   /\ pc' = "returned"
                   /\ log' = log \cup {"Fehler bei paralleler Chat-Anfrage"}
                   /\ UNCHANGED invoke

\* modelInstance.invoke resolves with a response.
InvokeResolve(s, response) ==
  /\ invoke[s].st = "pending"
  /\ invoke' = [invoke EXCEPT ![s] = [st |-> "fulfilled", value |-> response]]
  /\ UNCHANGED <<memo, clientVars, entry, req, env, pc, reply, streamVars, db, log, responses>>

\* modelInstance.invoke rejects.
InvokeReject(s) ==
  /\ invoke[s].st = "pending"
  /\ invoke' = [invoke EXCEPT ![s] = [st |-> "rejected"]]
  /\ UNCHANGED <<memo, clientVars, entry, req, env, pc, reply, streamVars, db, log, responses>>

\* A join in which one rejection turns both responses into failures.
ChatSettled_JointFailure ==
  /\ entry = "createParallelChat" /\ pc = "invoking"
  /\ \A s \in Slots : invoke[s].st \in {"fulfilled", "rejected"}
  /\ LET anyRejected == \E s \in Slots : invoke[s].st = "rejected"
         result(s) == IF anyRejected THEN [st |-> "rejected"] ELSE invoke[s]
     IN  responses' = Some([response1 |-> processModelResult(result("model1"), req.model1,
                                            getModelConfig(req.model1)[1]),
                            response2 |-> processModelResult(result("model2"), req.model2,
                                            getModelConfig(req.model2)[1])])
  /\ pc' = "saving"
  /\ UNCHANGED <<memo, clientVars, entry, req, env, reply, streamVars, db, log, invoke>>

\* await Promise.allSettled resumes: both results are processed and
\* saveToDatabase awaits prisma.prompt.create.
ChatSettled ==
  /\ entry = "createParallelChat" /\ pc = "invoking"
  /\ \A s \in Slots : invoke[s].st \in {"fulfilled", "rejected"}
  /\ responses' = Some([response1 |-> processModelResult(invoke["model1"], req.model1,
                                         getModelConfig(req.model1)[1]),
                        response2 |-> processModelResult(invoke["model2"], req.model2,
                                         getModelConfig(req.model2)[1])])
  /\ pc' = "saving"
  /\ UNCHANGED <<memo, clientVars, entry, req, env, reply, streamVars, db, log, invoke>>

\* prisma.prompt.create resolves; createParallelChat returns success.
ChatSaveOk ==
  /\ entry = "createParallelChat" /\ pc = "saving"
  /\ db' = Append(db, chatRow(req, responses[1].response1, responses[1].response2))
  /\ reply' = Some([success |-> TRUE, data |-> responses[1]])
  /\ pc' = "returned"
  /\ UNCHANGED <<memo, clientVars, entry, req, env, streamVars, log, chatVars>>

\* prisma.prompt.create rejects: saveToDatabase logs and returns normally;
\* createParallelChat still returns success.
ChatSaveFail ==
  /\ entry = "createParallelChat" /\ pc = "saving"
  /\ log' = log \cup {"Fehler beim Speichern in Datenbank"}
  /\ reply' = Some([success |-> TRUE, data |-> responses[1]])
  /\ pc' = "returned"
  /\ UNCHANGED <<memo, clientVars, entry, req, env, streamVars, db, chatVars>>

---------------------------------------------------------------------------
(* createStreamingChat                                                     *)

\* The validation of createStreamingChat: the error, or null when accepted.
\* The model ids are only checked for presence.
streamingValidation(request) ==
  IF trim(request.prompt) = <<>> THEN Some("Prompt darf nicht leer sein")
  ELSE IF request.model1 = "" \/ request.model2 = ""
  THEN Some("Beide Modelle muessen ausgewaehlt werden")
  ELSE NULL

\* The stream URL, as the query parameters GET reads from it: a fresh
\* session id, the two ids as given, the prompt through encodeURIComponent
\* (which searchParams.get undoes).
streamUrlOf(request) ==
  [session |-> TRUE, model1 |-> request.model1, model2 |-> request.model2,
   prompt |-> request.prompt]

\* createStreamingChat: it has no await, the whole call is one step.
createStreamingChat ==
  /\ entry = "createStreamingChat" /\ pc = "received"
  /\ reply' = IF streamingValidation(req) # NULL
              THEN Some([success |-> FALSE, error |-> streamingValidation(req)[1]])
              ELSE Some([success |-> TRUE,
                         data |-> [id |-> "sessionId", streamUrl |-> streamUrlOf(req)]])
  /\ pc' = "returned"
  /\ UNCHANGED <<memo, clientVars, entry, req, env, streamVars, db, log, chatVars>>

---------------------------------------------------------------------------
(* Specifications                                                          *)

SlotStep(s) ==
  \/ StreamOpened(s)
  \/ StreamOpenFailed(s)
  \/ \E delta \in Deltas : StreamChunk(s, delta)
  \/ StreamEnd(s)
  \/ StreamError(s)

Next ==
  \/ GETRequest
  \/ \E s \in Slots : SlotStep(s)
  \/ \E s \in Slots : BackendStall(s)
  \/ Disconnect
  \/ AllSettled
  \/ SaveOk
  \/ SaveFail
  \/ createParallelChat
  \/ \E s \in Slots : \E response \in InvokeResponses : InvokeResolve(s, response)
  \/ \E s \in Slots : InvokeReject(s)
  \/ ChatSettled
  \/ ChatSaveOk
  \/ ChatSaveFail
  \/ createStreamingChat

Spec == Init /\ [][Next]_vars

\* The event loop runs every continuation that is ready, and a live backend
\* does something (a chunk, the end, an error, or it stalls for good); a
\* pending store write resolves or rejects.
FairSpec ==
  /\ Spec
  /\ WF_vars(GETRequest)
  /\ \A s \in Slots : WF_vars(SlotStep(s) \/ BackendStall(s))
  /\ WF_vars(AllSettled)
  /\ WF_vars(SaveOk \/ SaveFail)

---------------------------------------------------------------------------
(* Direct calls of lib/pricing and lib/tokenizer                           *)

MaxUsageTokens == 3

MaxTextLen == 5

\* The registered ids, and ids that are not in the model table.
LibModelIds ==
  {ALL_MODELS[i].id : i \in 1..Len(ALL_MODELS)}
    \cup {"no-such-model", "", "my-openai-model", "x-anthropic", "llama-3"}

Usages ==
  {[input |-> i, output |-> o, total |-> i + o] :
     i \in 0..MaxUsageTokens, o \in 0..MaxUsageTokens}

TextChars == {"a", " ", "\n"}

Texts == UNION {[1..n -> TextChars] : n \in 0..MaxTextLen}

NoCall == [fn |-> "none"]

\* No call is under way; the request handlers are not involved.
LibInit ==
  /\ entry = "lib"
  /\ req = NoCall
  /\ env = [OPENAI_API_KEY |-> FALSE, ANTHROPIC_API_KEY |-> FALSE]
  /\ pc = "idle"
  /\ reply = NULL
  /\ slot = [s \in Slots |-> IdleSlot]
  /\ backend = [s \in Slots |-> "none"]
  /\ ctrl = "none"
  /\ events = [s \in Slots |-> <<>>]
  /\ db = <<>>
  /\ log = {}
  /\ invoke = [s \in Slots |-> [st |-> "none"]]
  /\ responses = NULL
  /\ memo = NULL
  /\ client = NoClient
  /\ page = NoPage
  /\ taken = [s \in Slots |-> 0]

LibUnchanged == UNCHANGED <<memo, clientVars, entry, env, streamVars, db, log, chatVars>>

\* A calculateCost that keeps a running total across calls.
CallCalculateCost_Accumulating(tokenUsage, modelId) ==
  /\ entry = "lib" /\ pc = "idle"
  /\ req' = [fn |-> "calculateCost", tokenUsage |-> tokenUsage, modelId |-> modelId]
  /\ LET calculation == calculateCost(tokenUsage, modelId)
     IN  reply' = IF calculation.ok /\ memo # NULL
                  THEN Some([calculation EXCEPT
                               !.totalCost = @ + memo[1].result.totalCost])
                  ELSE Some(calculation)
  /\ pc' = "called"
  /\ LibUnchanged

\* calculateCost(tokenUsage, modelId): the CostCalculation or the thrown Error.
CallCalculateCost(tokenUsage, modelId) ==
  /\ entry = "lib" /\ pc = "idle"
  /\ req' = [fn |-> "calculateCost", tokenUsage |-> tokenUsage, modelId |-> modelId]
  /\ reply' = Some(calculateCost(tokenUsage, modelId))
  /\ pc' = "called"
  /\ LibUnchanged

\* calculateLiveCost(inputTokens, outputTokens, modelId): the total cost, or
\* the Error thrown by calculateCost.
CallCalculateLiveCost(inputTokens, outputTokens, modelId) ==
  /\ entry = "lib" /\ pc = "idle"
  /\ LET tokenUsage == [input |-> inputTokens, output |-> outputTokens,
                        total |-> inputTokens + outputTokens]
         calculation == calculateCost(tokenUsage, modelId)
     IN  /\ req' = [fn |-> "calculateLiveCost", tokenUsage |-> tokenUsage,
                    modelId |-> modelId]
         /\ reply' = IF calculation.ok
                     THEN Some([ok |-> TRUE,
                                value |-> calculateLiveCost(inputTokens, outputTokens,
                                                            modelId)])
                     ELSE Some(calculation)
  /\ pc' = "called"
  /\ LibUnchanged

\* countTokens(text, modelId): it has no throw statement.
CallCountTokens(text, modelId) ==
  /\ entry = "lib" /\ pc = "idle"
  /\ req' = [fn |-> "countTokens", text |-> text, modelId |-> modelId]
  /\ reply' = Some([ok |-> TRUE, value |-> countTokens(text, modelId)])
  /\ pc' = "called"
  /\ LibUnchanged

\* The caller has taken the result.
LibReturn ==
  /\ entry = "lib" /\ pc = "called"
  /\ req' = NoCall
  /\ reply' = NULL
  /\ pc' = "idle"
  /\ LibUnchanged

LibNext ==
  \/ \E tokenUsage \in Usages, modelId \in LibModelIds :
       CallCalculateCost(tokenUsage, modelId)
  \/ \E tokenUsage \in Usages, modelId \in LibModelIds :
       CallCalculateLiveCost(tokenUsage.input, tokenUsage.output, modelId)
  \/ \E text \in Texts, modelId \in LibModelIds : CallCountTokens(text, modelId)
  \/ LibReturn

LibSpec == LibInit /\ [][LibNext]_vars

\* const first = calculateCost(tokenUsage, modelId): the caller keeps the
\* CostCalculation of one call, and that call is over.
KeepResult ==
  /\ entry = "lib" /\ pc = "called"
  /\ req.fn = "calculateCost" /\ reply[1].ok
  /\ memo = NULL
  /\ memo' = Some([tokenUsage |-> req.tokenUsage, modelId |-> req.modelId,
                   result |-> reply[1]])
  /\ req' = NoCall
  /\ reply' = NULL
  /\ pc' = "idle"
  /\ UNCHANGED <<clientVars, entry, env, streamVars, db, log, chatVars>>

\* Calls of lib/pricing in any order, one of whose results the caller keeps.
PureNext ==
  \/ \E tokenUsage \in Usages, modelId \in LibModelIds :
       CallCalculateCost(tokenUsage, modelId)
  \/ \E tokenUsage \in Usages, modelId \in LibModelIds :
       CallCalculateLiveCost(tokenUsage.input, tokenUsage.output, modelId)
  \/ KeepResult
  \/ LibReturn

PureSpec == LibInit /\ [][PureNext]_vars

---------------------------------------------------------------------------
(* lib/tokenizer: calls that build and update a TokenUsage                 *)

\* Output texts of the three token counts a text here can have.
Outputs == {<<>>, <<"a">>, [i \in 1..MaxTextLen |-> "a"]}

\* createTokenUsage(input, output, modelId).
CallCreateTokenUsage(input, output, modelId) ==
  /\ entry = "lib" /\ pc = "idle"
  /\ req' = [fn |-> "createTokenUsage", input |-> input, output |-> output,
             modelId |-> modelId]
  /\ reply' = Some([ok |-> TRUE, value |-> createTokenUsage(input, output, modelId)])
  /\ pc' = "called"
  /\ LibUnchanged

\* updateTokenUsage(currentUsage, newOutputChunk, modelId).
CallUpdateTokenUsage(currentUsage, newOutputChunk, modelId) ==
  /\ entry = "lib" /\ pc = "idle"
  /\ req' = [fn |-> "updateTokenUsage", currentUsage |-> currentUsage,
             newOutputChunk |-> newOutputChunk, modelId |-> modelId]
  /\ reply' = Some([ok |-> TRUE,
                    value |-> updateTokenUsage(currentUsage, newOutputChunk, modelId)])
  /\ pc' = "called"
  /\ LibUnchanged

UsageCalls ==
  \/ /\ pc = "idle"
     /\ \E input \in Texts, output \in Outputs, modelId \in LibModelIds :
          CallCreateTokenUsage(input, output, modelId)
  \/ /\ pc = "idle"
     /\ \E currentUsage \in Usages, newOutputChunk \in Texts, modelId \in LibModelIds :
          CallUpdateTokenUsage(currentUsage, newOutputChunk, modelId)
  \/ LibReturn

\* One accepted stream request with both API keys set, or a caller of
\* lib/tokenizer.
UsageInit ==
  \/ /\ Init
     /\ entry = "GET"
     /\ req = [session |-> TRUE, model1 |-> "gpt-4o-mini",
               model2 |-> "claude-3-5-haiku-20241022", prompt |-> <<"h", "i">>]
     /\ env = [OPENAI_API_KEY |-> TRUE, ANTHROPIC_API_KEY |-> TRUE]
  \/ LibInit

\* The stream route, which builds the TokenUsage of its events itself, and
\* the tokenizer's calls.
UsageNext ==
  \/ GETRequest
  \/ \E s \in Slots : SlotStep(s)
  \/ Disconnect
  \/ AllSettled
  \/ SaveOk
  \/ UsageCalls

UsageSpec == UsageInit /\ [][UsageNext]_vars

---------------------------------------------------------------------------
(* lib/tokenizer: truncateToTokenLimit                                     *)

\* The largest token limit a caller passes.
MaxTokenLimit == 2

\* truncateToTokenLimit(text, modelId, maxTokens).
CallTruncateToTokenLimit(text, modelId, maxTokens) ==
  /\ entry = "lib" /\ pc = "idle"
  /\ req' = [fn |-> "truncateToTokenLimit", text |-> text, modelId |-> modelId,
             maxTokens |-> maxTokens]
  /\ reply' = Some([ok |-> TRUE, value |-> truncateToTokenLimit(text, modelId, maxTokens)])
  /\ pc' = "called"
  /\ LibUnchanged

TruncateNext ==
  \/ /\ pc = "idle"
     /\ \E text \in Texts, modelId \in LibModelIds, maxTokens \in 1..MaxTokenLimit :
          CallTruncateToTokenLimit(text, modelId, maxTokens)
  \/ LibReturn

TruncateSpec == LibInit /\ [][TruncateNext]_vars

---------------------------------------------------------------------------
(* lib/models: parseTokenUsage                                             *)

\* The usage payloads of a response: each count field holds a number; 0 also
\* stands for a field the payload does not have.
UsagePayloads ==
  [prompt_tokens : 0..MaxUsageTokens, completion_tokens : 0..MaxUsageTokens,
   total_tokens : 0..MaxUsageTokens, input_tokens : 0..MaxUsageTokens,
   output_tokens : 0..MaxUsageTokens]

Providers == {"openai", "anthropic", "other"}

\* parseTokenUsage(usage, provider).
CallParseTokenUsage(usage, provider) ==
  /\ entry = "lib" /\ pc = "idle"
  /\ req' = [fn |-> "parseTokenUsage", usage |-> usage, provider |-> provider]
  /\ reply' = Some([ok |-> TRUE, value |-> parseTokenUsage(usage, provider)])
  /\ pc' = "called"
  /\ LibUnchanged

ParseNext ==
  \/ /\ pc = "idle"
     /\ \E usage \in UsagePayloads, provider \in Providers :
          CallParseTokenUsage(usage, provider)
  \/ LibReturn

ParseSpec == LibInit /\ [][ParseNext]_vars

---------------------------------------------------------------------------
(* lib/history and the history actions: calls against a filled store       *)

MaxRows == 3

MaxTime == 2

MaxPage == 3

MaxLimit == 2

\* What a row of prisma.prompt can hold: the id stands for the cuid, the
\* createdAt for the millisecond of now().
HistoryRows(id) ==
  [id : {id}, createdAt : 1..MaxTime,
   content : {<<"h", "i">>, <<"y", "o">>},
   model1 : {"gpt-4o-mini"}, model2 : {"claude-3-5-haiku-20241022"},
   response1 : {NULL}, response2 : {NULL, Some(<<"h", "i">>)},
   cost1 : {NULL}, cost2 : {NULL}]

\* Stores of rows in creation order: createdAt never decreases along them.
Stores ==
  UNION {{q \in [1..n -> UNION {HistoryRows(i) : i \in 1..n}] :
            /\ \A i \in 1..n : q[i].id = i
            /\ \A i \in 1..(n - 1) : q[i].createdAt <= q[i + 1].createdAt} :
         n \in 0..MaxRows}

\* Ids a caller may pass: those of rows, and one no row ever has.
CallerIds == 0..MaxRows

\* The search argument: undefined, '' or a text.
Searches == {NULL, Some(<<>>), Some(<<"h">>), Some(<<"y", "o">>), Some(<<"z">>)}

HistoryInit ==
  /\ entry = "history"
  /\ req = NoCall
  /\ env \in [DATABASE_UP : BOOLEAN]
  /\ pc = "idle"
  /\ reply = NULL
  /\ slot = [s \in Slots |-> IdleSlot]
  /\ backend = [s \in Slots |-> "none"]
  /\ ctrl = "none"
  /\ events = [s \in Slots |-> <<>>]
  /\ db \in Stores
  /\ log = {}
  /\ invoke = [s \in Slots |-> [st |-> "none"]]
  /\ responses = NULL
  /\ memo = NULL
  /\ client = NoClient
  /\ page = NoPage
  /\ taken = [s \in Slots |-> 0]

HistoryUnchanged ==
  UNCHANGED <<memo, clientVars, entry, env, streamVars, chatVars>>

\* Prisma's filter { contains: search } on a nullable String column.
contains(column, search) == column # NULL /\ includes(column[1], search)

\* The where clause of getPromptHistoryPaginated: no filter for a search
\* that is undefined or ''.
whereClause(search, row) ==
  IF search = NULL \/ search = Some(<<>>) THEN TRUE
  ELSE \/ contains(Some(row.content), search[1])
       \/ contains(row.response1, search[1])
       \/ contains(row.response2, search[1])

\* The orders in which orderBy: { createdAt: 'desc' } can return rows: rows
\* with equal createdAt come in any order.
orderByCreatedAtDesc(rows) ==
  {r \in [1..Len(rows) -> 1..Len(rows)] :
     /\ \A i, j \in 1..Len(rows) : i # j => r[i] # r[j]
     /\ \A i \in 1..(Len(rows) - 1) :
          rows[r[i]].createdAt >= rows[r[i + 1]].createdAt}

\* skip and take of findMany.
skipTake(rows, skip, take) ==
  SubSeq(rows, skip + 1, IF skip + take < Len(rows) THEN skip + take ELSE Len(rows))

\* A pagination that skips one page too many.
getPromptHistoryPaginated_NextPage(pageNo, limit, search) ==
  /\ entry = "history" /\ pc = "idle"
  /\ req' = [fn |-> "getPromptHistoryPaginated", page |-> pageNo, limit |-> limit,
             search |-> search]
  /\ IF env.DATABASE_UP
     THEN LET offset == pageNo * limit
              found  == SelectSeq(db, LAMBDA row : whereClause(search, row))
          IN  /\ \E r \in orderByCreatedAtDesc(found) :
                   LET items == skipTake([i \in 1..Len(found) |-> found[r[i]]],
                                         offset, limit)
                   IN  reply' = Some([success |-> TRUE,
                                      data |-> [items |-> items, total |-> Len(found),
                                                hasMore |-> offset + Len(items)
                                                              < Len(found)]])
              /\ UNCHANGED log
     ELSE /\ reply' = Some([success |-> FALSE,
                            error |-> "Fehler beim Laden der Historie"])
          /\ log' = log \cup {"Fehler beim Laden der History"}
  /\ pc' = "called"
  /\ UNCHANGED db
  /\ HistoryUnchanged

\* getPromptHistoryPaginated(page, limit, search): when the store does not
\* answer, the queries reject and the catch block runs.
getPromptHistoryPaginated(pageNo, limit, search) ==
  /\ entry = "history" /\ pc = "idle"
  /\ req' = [fn |-> "getPromptHistoryPaginated", page |-> pageNo, limit |-> limit,
             search |-> search]
  /\ IF env.DATABASE_UP
     THEN LET offset == (pageNo - 1) * limit
              found  == SelectSeq(db, LAMBDA row : whereClause(search, row))
          IN  /\ \E r \in orderByCreatedAtDesc(found) :
                   LET items == skipTake([i \in 1..Len(found) |-> found[r[i]]],
                                         offset, limit)
                   IN  reply' = Some([success |-> TRUE,
                                      data |-> [items |-> items, total |-> Len(found),
                                                hasMore |-> offset + Len(items)
                                                              < Len(found)]])
              /\ UNCHANGED log
     ELSE /\ reply' = Some([success |-> FALSE,
                            error |-> "Fehler beim Laden der Historie"])
          /\ log' = log \cup {"Fehler beim Laden der History"}
  /\ pc' = "called"
  /\ UNCHANGED db
  /\ HistoryUnchanged

\* deletePromptHistoryItem(id): prisma.prompt.delete rejects when no row has
\* the id (record to delete does not exist), as it does when the store is down.
deletePromptHistoryItem(id) ==
  /\ entry = "history" /\ pc = "idle"
  /\ req' = [fn |-> "deletePromptHistoryItem", id |-> id]
  /\ IF env.DATABASE_UP /\ \E i \in 1..Len(db) : db[i].id = id
     THEN /\ db' = SelectSeq(db, LAMBDA row : row.id # id)
          /\ reply' = Some([success |-> TRUE])
          /\ UNCHANGED log
     ELSE /\ reply' = Some([success |-> FALSE,
                            error |-> "Fehler beim Loeschen des Eintrags"])
          /\ log' = log \cup {"Fehler beim Loeschen des Historie-Eintrags"}
          /\ UNCHANGED db
  /\ pc' = "called"
  /\ HistoryUnchanged

\* deleteMultipleHistoryItems(ids): deleteMany removes the rows that match
\* and resolves with their number.
deleteMultipleHistoryItems(ids) ==
  /\ entry = "history" /\ pc = "idle"
  /\ req' = [fn |-> "deleteMultipleHistoryItems", ids |-> ids]
  /\ IF env.DATABASE_UP
     THEN /\ db' = SelectSeq(db, LAMBDA row : row.id \notin ids)
          /\ reply' = Some([success |-> TRUE,
                            data |-> Cardinality({i \in 1..Len(db) : db[i].id \in ids})])
          /\ UNCHANGED log
     ELSE /\ reply' = Some([success |-> FALSE,
                            error |-> "Fehler beim Loeschen der Eintraege"])
          /\ log' = log \cup {"Fehler beim Loeschen der Eintraege"}
          /\ UNCHANGED db
  /\ pc' = "called"
  /\ HistoryUnchanged

\* The caller has taken the result.
HistoryReturn ==
  /\ entry = "history" /\ pc = "called"
  /\ req' = NoCall
  /\ reply' = NULL
  /\ pc' = "idle"
  /\ UNCHANGED <<db, log>>
  /\ HistoryUnchanged

HistoryNext ==
  \/ \E pageNo \in 1..MaxPage, limit \in 1..MaxLimit, search \in Searches :
       getPromptHistoryPaginated(pageNo, limit, search)
  \/ \E id \in CallerIds : deletePromptHistoryItem(id)
  \/ \E ids \in SUBSET CallerIds : deleteMultipleHistoryItems(ids)
  \/ HistoryReturn

HistorySpec == HistoryInit /\ [][HistoryNext]_vars

---------------------------------------------------------------------------
(* lib/streaming: SSEStreamingClient and its EventSource                   *)

maxReconnectAttempts == 3

MaxTimers == 2

\* A constructed client: eventSource is "null" for this.eventSource === null
\* and otherwise the readyState of the EventSource; timers counts the pending
\* setTimeout callbacks of handleDisconnection; reported holds the messages
\* passed to onError; handled tells that onEvent has been called; stopped
\* tells that the caller's last call was stop().
NewClient ==
  [eventSource |-> "null", reconnectAttempts |-> 0, timers |-> 0,
   reported |-> {}, handled |-> FALSE, stopped |-> FALSE]

\* What a message of the stream can be to onmessage: text that JSON.parse
\* rejects, an error event tagged 'system' or isConfigError, any other event.
Messages == {"unparsable", "configError", "event"}

\* eventSource.onmessage.
onmessage(c, message) ==
  IF message = "unparsable"
  THEN [c EXCEPT !.reported = @ \cup {"Fehler beim Parsen der Stream-Nachricht"}]
  ELSE IF message = "configError"
  THEN [c EXCEPT !.reported = @ \cup {"Konfigurationsfehler"}]
  ELSE [c EXCEPT !.handled = TRUE]

\* start(): new EventSource(url), which begins to connect.
start(c) == [c EXCEPT !.eventSource = "connecting"]

\* stop(): close and drop the EventSource, reset the attempts. A pending
\* timer is left alone.
stop(c) == [c EXCEPT !.eventSource = "null", !.reconnectAttempts = 0]

\* eventSource.onopen.
onopen(c) == [c EXCEPT !.eventSource = "open", !.reconnectAttempts = 0]

\* handleDisconnection(): another attempt after a delay, or the final error.
handleDisconnection(c) ==
  IF c.reconnectAttempts < maxReconnectAttempts
  THEN [c EXCEPT !.reconnectAttempts = @ + 1, !.timers = @ + 1]
  ELSE [c EXCEPT !.reported = @ \cup {"Verbindung zum Stream verloren"}]

\* eventSource.onerror, the EventSource being in readyState.
onerror(c, readyState) ==
  IF readyState = "closed"
  THEN handleDisconnection([c EXCEPT !.eventSource = "closed"])
  ELSE [c EXCEPT !.eventSource = readyState]

SSEInit ==
  /\ entry = "sse"
  /\ req = NoCall
  /\ env = [OPENAI_API_KEY |-> FALSE, ANTHROPIC_API_KEY |-> FALSE]
  /\ pc = "idle"
  /\ reply = NULL
  /\ slot = [s \in Slots |-> IdleSlot]
  /\ backend = [s \in Slots |-> "none"]
  /\ ctrl = "none"
  /\ events = [s \in Slots |-> <<>>]
  /\ db = <<>>
  /\ log = {}
  /\ invoke = [s \in Slots |-> [st |-> "none"]]
  /\ responses = NULL
  /\ memo = NULL
  /\ client = NewClient
  /\ page = NoPage
  /\ taken = [s \in Slots |-> 0]

SSEUnchanged ==
  UNCHANGED <<memo, page, taken, entry, req, env, pc, reply, streamVars, db, log,
              chatVars>>

\* The caller calls start().
CallerStart ==
  /\ entry = "sse"
  /\ client.eventSource = "null"
  /\ client' = [start(client) EXCEPT !.stopped = FALSE]
  /\ SSEUnchanged

\* The caller calls stop().
CallerStop ==
  /\ entry = "sse"
  /\ client' = [stop(client) EXCEPT !.stopped = TRUE]
  /\ SSEUnchanged

\* The response arrives with status 200 and text/event-stream: the
\* EventSource announces the connection.
ESOpen ==
  /\ entry = "sse"
  /\ client.eventSource = "connecting"
  /\ client' = onopen(client)
  /\ SSEUnchanged

\* The EventSource fails the connection (a response that is not an event
\* stream, or a network error the browser gives up on): readyState CLOSED.
ESFail ==
  /\ entry = "sse"
  /\ client.eventSource = "connecting"
  /\ client.timers < MaxTimers
  /\ client' = onerror(client, "closed")
  /\ SSEUnchanged

\* The open connection is lost or ended by the server: the EventSource goes
\* back to CONNECTING and will request the URL again by itself.
ESDrop ==
  /\ entry = "sse"
  /\ client.eventSource = "open"
  /\ client' = onerror(client, "connecting")
  /\ SSEUnchanged

\* A message arrives on the open connection.
ESMessage(message) ==
  /\ entry = "sse"
  /\ client.eventSource = "open"
  /\ client' = onmessage(client, message)
  /\ SSEUnchanged

\* A setTimeout callback of handleDisconnection runs: this.start().
TimerFires ==
  /\ entry = "sse"
  /\ client.timers > 0
  /\ client' = start([client EXCEPT !.timers = @ - 1])
  /\ SSEUnchanged

SSENext ==
  \/ CallerStart
  \/ CallerStop
  \/ ESOpen
  \/ ESFail
  \/ ESDrop
  \/ \E message \in Messages : ESMessage(message)
  \/ TimerFires

SSESpec == SSEInit /\ [][SSENext]_vars

\* Timers run; a connection attempt ends, again and again also in failure;
\* an open connection is lost.
FairSSESpec ==
  /\ SSESpec
  /\ WF_vars(TimerFires)
  /\ WF_vars(ESOpen \/ ESFail)
  /\ SF_vars(ESFail)
  /\ WF_vars(ESDrop)

---------------------------------------------------------------------------
(* lib/streaming: StreamTimeout                                            *)

\* How many times start() and reset() are called at most.
MaxTimeoutCalls == 8

\* A constructed StreamTimeout: timeoutId is null or the id setTimeout
\* returned; pending holds the ids of the timers that have neither run nor
\* been cleared; started counts the setTimeout calls, whose ids are 1, 2, ...;
\* timeouts counts the calls of onTimeout, fired those since the caller's
\* last call, which lastCall names.
NewStreamTimeout ==
  [timeoutId |-> NULL, pending |-> {}, started |-> 0, timeouts |-> 0, fired |-> 0,
   lastCall |-> "none"]

\* clear(): clearTimeout on the id held, if one is held.
StreamTimeout_clear(t) ==
  IF t.timeoutId # NULL
  THEN [t EXCEPT !.pending = @ \ {t.timeoutId[1]}, !.timeoutId = NULL]
  ELSE t

\* A start() that sets a timer without clearing the one before.
StreamTimeout_start_NoClear(t) ==
  [t EXCEPT !.pending = @ \cup {t.started + 1},
            !.timeoutId = Some(t.started + 1),
            !.started = @ + 1]

\* start(): clear(), then setTimeout and keep its id.
StreamTimeout_start(t) ==
  LET cleared == StreamTimeout_clear(t)
  IN  [cleared EXCEPT !.pending = @ \cup {t.started + 1},
                      !.timeoutId = Some(t.started + 1),
                      !.started = @ + 1]

\* reset(): start().
StreamTimeout_reset(t) == StreamTimeout_start(t)

TimeoutInit ==
  /\ entry = "StreamTimeout"
  /\ req = NoCall
  /\ env = [OPENAI_API_KEY |-> FALSE, ANTHROPIC_API_KEY |-> FALSE]
  /\ pc = "idle"
  /\ reply = NULL
  /\ slot = [s \in Slots |-> IdleSlot]
  /\ backend = [s \in Slots |-> "none"]
  /\ ctrl = "none"
  /\ events = [s \in Slots |-> <<>>]
  /\ db = <<>>
  /\ log = {}
  /\ invoke = [s \in Slots |-> [st |-> "none"]]
  /\ responses = NULL
  /\ memo = NULL
  /\ client = NewStreamTimeout
  /\ page = NoPage
  /\ taken = [s \in Slots |-> 0]

TimeoutUnchanged ==
  UNCHANGED <<memo, page, taken, entry, req, env, pc, reply, streamVars, db, log,
              chatVars>>

\* The caller calls start().
TimeoutStart ==
  /\ entry = "StreamTimeout"
  /\ client.started < MaxTimeoutCalls
  /\ client' = [StreamTimeout_start(client) EXCEPT !.fired = 0, !.lastCall = "start"]
  /\ TimeoutUnchanged

\* The caller calls reset().
TimeoutReset ==
  /\ entry = "StreamTimeout"
  /\ client.started < MaxTimeoutCalls
  /\ client' = [StreamTimeout_reset(client) EXCEPT !.fired = 0, !.lastCall = "reset"]
  /\ TimeoutUnchanged

\* The caller calls clear().
TimeoutClear ==
  /\ entry = "StreamTimeout"
  /\ client' = [StreamTimeout_clear(client) EXCEPT !.fired = 0, !.lastCall = "clear"]
  /\ TimeoutUnchanged

\* The duration of a pending timer has passed: the runtime calls onTimeout.
\* The id stays in timeoutId.
TimeoutElapses(id) ==
  /\ entry = "StreamTimeout"
  /\ id \in client.pending
  /\ client' = [client EXCEPT !.pending = @ \ {id}, !.timeouts = @ + 1,
                              !.fired = @ + 1]
  /\ TimeoutUnchanged

TimeoutNext ==
  \/ TimeoutStart
  \/ TimeoutReset
  \/ TimeoutClear
  \/ \E id \in 1..MaxTimeoutCalls : TimeoutElapses(id)

TimeoutSpec == TimeoutInit /\ [][TimeoutNext]_vars

---------------------------------------------------------------------------
(* lib/streaming: the consumer's StreamState                               *)

InitialModelState ==
  [content |-> <<>>, isStreaming |-> FALSE,
   tokens |-> [input |-> 0, output |-> 0, total |-> 0], cost |-> 0,
   error |-> NULL]

createInitialStreamState ==
  [model1 |-> InitialModelState, model2 |-> InitialModelState,
   totalCost |-> 0, isAnyStreaming |-> FALSE]

\* event.data.error || 'Unbekannter Fehler'.
errorOrUnknown(error) ==
  IF error = NULL \/ error = Some("") THEN "Unbekannter Fehler" ELSE error[1]

\* An update in which a start event clears the content of both slots.
updateStreamState_StartClearsAll(state, event) ==
  IF event.model = "system"
  THEN state
  ELSE LET modelKey == event.model
           old == state[modelKey]
           new == CASE event.type = "start" ->
                         [old EXCEPT !.isStreaming = TRUE, !.error = NULL,
                                     !.content = <<>>]
                    [] event.type = "token" ->
                         [old EXCEPT !.content = @ \o event.data.delta,
                                     !.tokens = event.data.tokens,
                                     !.cost = event.data.cost]
                    [] event.type = "complete" ->
                         [old EXCEPT !.isStreaming = FALSE,
                                     !.tokens = event.data.tokens,
                                     !.cost = event.data.cost]
                    [] event.type = "error" ->
                         [old EXCEPT !.isStreaming = FALSE,
                                     !.error = Some(errorOrUnknown(event.data.error))]
                    [] OTHER -> old
           cleared == IF event.type = "start"
                      THEN [s \in Slots |-> [state[s] EXCEPT !.content = <<>>]]
                           @@ state
                      ELSE state
           newState == [cleared EXCEPT ![modelKey] = new]
       IN  [newState EXCEPT
              !.isAnyStreaming = newState.model1.isStreaming
                                   \/ newState.model2.isStreaming,
              !.totalCost = newState.model1.cost + newState.model2.cost]

\* An update that keeps totalCost as the running sum of the events' costs.
updateStreamState_RunningTotal(state, event) ==
  IF event.model = "system"
  THEN state
  ELSE LET modelKey == event.model
           old == state[modelKey]
           new == CASE event.type = "start" ->
                         [old EXCEPT !.isStreaming = TRUE, !.error = NULL,
                                     !.content = <<>>]
                    [] event.type = "token" ->
                         [old EXCEPT !.content = @ \o event.data.delta,
                                     !.tokens = event.data.tokens,
                                     !.cost = event.data.cost]
                    [] event.type = "complete" ->
                         [old EXCEPT !.isStreaming = FALSE,
                                     !.tokens = event.data.tokens,
                                     !.cost = event.data.cost]
                    [] event.type = "error" ->
                         [old EXCEPT !.isStreaming = FALSE,
                                     !.error = Some(errorOrUnknown(event.data.error))]
                    [] OTHER -> old
           newState == [state EXCEPT ![modelKey] = new]
       IN  [newState EXCEPT
              !.isAnyStreaming = newState.model1.isStreaming
                                   \/ newState.model2.isStreaming,
              !.totalCost = state.totalCost + event.data.cost]

\* An update in which a token event replaces the content by its delta.
updateStreamState_ContentReplaced(state, event) ==
  IF event.model = "system"
  THEN state
  ELSE LET modelKey == event.model
           old == state[modelKey]
           new == CASE event.type = "start" ->
                         [old EXCEPT !.isStreaming = TRUE, !.error = NULL,
                                     !.content = <<>>]
                    [] event.type = "token" ->
                         [old EXCEPT !.content = event.data.delta,
                                     !.tokens = event.data.tokens,
                                     !.cost = event.data.cost]
                    [] event.type = "complete" ->
                         [old EXCEPT !.isStreaming = FALSE,
                                     !.tokens = event.data.tokens,
                                     !.cost = event.data.cost]
                    [] event.type = "error" ->
                         [old EXCEPT !.isStreaming = FALSE,
                                     !.error = Some(errorOrUnknown(event.data.error))]
                    [] OTHER -> old
           newState == [state EXCEPT ![modelKey] = new]
       IN  [newState EXCEPT
              !.isAnyStreaming = newState.model1.isStreaming
                                   \/ newState.model2.isStreaming,
              !.totalCost = newState.model1.cost + newState.model2.cost]

\* updateStreamState: the slot named by the event is rewritten according to
\* the event's type, whatever the slot's state; then the derived fields.
updateStreamState(state, event) ==
  IF event.model = "system"
  THEN state
  ELSE LET modelKey == event.model
           old == state[modelKey]
           new == CASE event.type = "start" ->
                         [old EXCEPT !.isStreaming = TRUE, !.error = NULL,
                                     !.content = <<>>]
                    [] event.type = "token" ->
                         [old EXCEPT !.content = @ \o event.data.delta,
                                     !.tokens = event.data.tokens,
                                     !.cost = event.data.cost]
                    [] event.type = "complete" ->
                         [old EXCEPT !.isStreaming = FALSE,
                                     !.tokens = event.data.tokens,
                                     !.cost = event.data.cost]
                    [] event.type = "error" ->
                         [old EXCEPT !.isStreaming = FALSE,
                                     !.error = Some(errorOrUnknown(event.data.error))]
                    [] OTHER -> old
           newState == [state EXCEPT ![modelKey] = new]
       IN  [newState EXCEPT
              !.isAnyStreaming = newState.model1.isStreaming
                                   \/ newState.model2.isStreaming,
              !.totalCost = newState.model1.cost + newState.model2.cost]

---------------------------------------------------------------------------
(* lib/streaming: updateStreamState, called event by event                 *)

\* How many events per slot a caller passes before it re-creates the state.
MaxEvents == 2

\* The largest output count an event carries.
MaxEventTokens == 1

EventData(delta, output, isComplete, error) ==
  [model |-> "gpt-4o-mini", delta |-> delta,
   tokens |-> [input |-> 0, output |-> output, total |-> output],
   cost |-> output, isComplete |-> isComplete, error |-> error]

\* The StreamEvents a caller may pass: of every type, for both slots and
\* tagged 'system'.
StreamEvents ==
  UNION { {[type |-> "start", model |-> k, data |-> EventData(<<>>, 0, FALSE, NULL)]}
          \cup {[type |-> "token", model |-> k,
                 data |-> EventData(<<"H", "i">>, n, FALSE, NULL)] : n \in 1..MaxEventTokens}
          \cup {[type |-> "complete", model |-> k,
                 data |-> EventData(<<>>, n, TRUE, NULL)] : n \in 0..MaxEventTokens}
          \cup {[type |-> "error", model |-> k,
                 data |-> EventData(<<>>, 0, TRUE, e)] : e \in {NULL, Some("backend error")}}
          : k \in Slots \cup {"system"} }

\* A caller that holds a StreamState; events are the events it has passed
\* to updateStreamState since the state was created.
StreamStateInit ==
  /\ entry = "updateStreamState"
  /\ req = NoCall
  /\ env = [OPENAI_API_KEY |-> FALSE, ANTHROPIC_API_KEY |-> FALSE]
  /\ pc = "idle"
  /\ reply = NULL
  /\ slot = [s \in Slots |-> IdleSlot]
  /\ backend = [s \in Slots |-> "none"]
  /\ ctrl = "none"
  /\ events = [s \in Slots |-> <<>>]
  /\ db = <<>>
  /\ log = {}
  /\ invoke = [s \in Slots |-> [st |-> "none"]]
  /\ responses = NULL
  /\ memo = NULL
  /\ client = NoClient
  /\ page = [isSubmitting |-> FALSE, streamState |-> createInitialStreamState]
  /\ taken = [s \in Slots |-> 0]

StreamStateUnchanged ==
  UNCHANGED <<memo, client, entry, req, env, pc, reply, slot, backend, ctrl, db, log,
              chatVars>>

\* setStreamState(prevState => updateStreamState(prevState, event)).
CallUpdateStreamState(event) ==
  /\ entry = "updateStreamState"
  /\ event.model \in Slots => Len(events[event.model]) < MaxEvents
  /\ page' = [page EXCEPT !.streamState = updateStreamState(@, event)]
  /\ IF event.model \in Slots
     THEN /\ events' = [events EXCEPT ![event.model] = Append(@, event)]
          /\ taken' = [taken EXCEPT ![event.model] = @ + 1]
     ELSE UNCHANGED <<events, taken>>
  /\ StreamStateUnchanged

\* setStreamState(createInitialStreamState()): the state of a new request.
Recreate ==
  /\ entry = "updateStreamState"
  /\ page' = [page EXCEPT !.streamState = createInitialStreamState]
  /\ events' = [s \in Slots |-> <<>>]
  /\ taken' = [s \in Slots |-> 0]
  /\ StreamStateUnchanged

StreamStateNext ==
  \/ \E event \in StreamEvents : CallUpdateStreamState(event)
  \/ Recreate

StreamStateSpec == StreamStateInit /\ [][StreamStateNext]_vars

---------------------------------------------------------------------------
(* The Home page and one streaming session                                 *)

\* How many times the stream URL of the session is requested at most.
MaxRuns == 2

\* How many chunks a backend produces at most in a run of a session.
MaxSessionChunks == 1

\* The page once handleSubmit has started the stream: timeouts counts the
\* pending setTimeout callbacks of handleStreamEvent, sessionCosts the entries
\* of the cost tracker, history the rows the history panel shows.
SubmittedPage ==
  [isSubmitting |-> TRUE, streamState |-> createInitialStreamState,
   streamingClientRef |-> TRUE, timeouts |-> 0, notification |-> NULL,
   sessionCosts |-> 0, isLoadingHistory |-> FALSE, history |-> 0]

\* handleStreamEvent: the new stream state; on a complete event the check
\* for joint completion, which schedules the wrap-up; the cost tracker.
handleStreamEvent(p, event) ==
  LET newState == updateStreamState(p.streamState, event)
      model1Complete == event.model = "model1" \/ ~newState.model1.isStreaming
      model2Complete == event.model = "model2" \/ ~newState.model2.isStreaming
      joint == /\ event.type = "complete"
               /\ model1Complete /\ model2Complete /\ ~newState.isAnyStreaming
      tracked == event.type = "complete" /\ getModelConfig(event.data.model) # NULL
  IN  [p EXCEPT !.streamState = newState,
                !.timeouts = IF joint THEN @ + 1 ELSE @,
                !.sessionCosts = IF tracked THEN @ + 1 ELSE @]

\* The onError callback handleSubmit hands to the streaming client, applied
\* when the client has reported an error in this step.
pageOnError(p, before, after) ==
  IF after.reported # before.reported
  THEN [p EXCEPT !.notification = Some("Streaming-Fehler"),
                 !.isSubmitting = FALSE,
                 !.streamingClientRef = FALSE]
  ELSE p

\* handleSubmit has validated the form, createStreamingChat has returned the
\* stream URL and startStream has created the EventSource; its request has
\* reached the route. Both API keys are set.
SessionInit ==
  /\ entry = "GET"
  /\ req \in {r \in Requests :
                /\ r.session /\ trim(r.prompt) # <<>>
                /\ r.model1 = "gpt-4o-mini"
                /\ r.model2 = "claude-3-5-haiku-20241022"}
  /\ env = [OPENAI_API_KEY |-> TRUE, ANTHROPIC_API_KEY |-> TRUE]
  /\ pc = "received"
  /\ reply = NULL
  /\ slot = [s \in Slots |-> IdleSlot]
  /\ backend = [s \in Slots |-> "none"]
  /\ ctrl = "none"
  /\ events = [s \in Slots |-> <<>>]
  /\ db = <<>>
  /\ log = {}
  /\ invoke = [s \in Slots |-> [st |-> "none"]]
  /\ responses = NULL
  /\ memo = NULL
  /\ client = start(NewClient)
  /\ page = SubmittedPage
  /\ taken = [s \in Slots |-> 0]

\* The response of the route reaches the EventSource: an event stream opens
\* the connection, anything else fails it.
ResponseArrives ==
  /\ entry = "GET"
  /\ client.eventSource = "connecting"
  /\ reply # NULL
  /\ LET c == IF reply[1].status = 200 THEN onopen(client)
              ELSE onerror(client, "closed")
     IN  /\ client' = c
         /\ page' = pageOnError(page, client, c)
  /\ UNCHANGED <<memo, taken, entry, req, env, pc, reply, streamVars, db, log, chatVars>>

\* The next event of a slot in the order of the stream: the two start events
\* were enqueued first, model1's before model2's.
nextInStream(s) ==
  /\ taken[s] < Len(events[s])
  /\ LET event == events[s][taken[s] + 1]
     IN  IF event.type = "start"
         THEN s = "model1" \/ taken["model1"] > 0
         ELSE \A t \in Slots : events[t] # <<>> /\ events[t][1].type = "start"
                                 => taken[t] > 0

\* The EventSource reads the next event of slot s: onmessage parses it and
\* calls onEvent, which is the page's handleStreamEvent.
Deliver(s) ==
  /\ entry = "GET"
  /\ client.eventSource = "open"
  /\ nextInStream(s)
  /\ LET event == events[s][taken[s] + 1]
     IN  /\ client' = onmessage(client, "event")
         /\ page' = handleStreamEvent(page, event)
  /\ taken' = [taken EXCEPT ![s] = @ + 1]
  /\ UNCHANGED <<memo, entry, req, env, pc, reply, streamVars, db, log, chatVars>>

\* Everything the route enqueued has been read.
allTaken == \A s \in Slots : taken[s] = Len(events[s])

\* The route has closed the stream and the EventSource has read it to its
\* end: the connection is over, the EventSource goes back to CONNECTING.
StreamEnds ==
  /\ entry = "GET"
  /\ client.eventSource = "open"
  /\ ctrl = "closed" /\ allTaken
  /\ client' = onerror(client, "connecting")
  /\ reply' = NULL
  /\ UNCHANGED <<memo, page, taken, entry, req, env, pc, streamVars, db, log, chatVars>>

\* The connection is lost while the stream is open: the runtime cancels the
\* ReadableStream, the EventSource goes back to CONNECTING. What was enqueued
\* and not read is gone.
ConnectionLost ==
  /\ entry = "GET"
  /\ client.eventSource = "open"
  /\ ctrl = "open"
  /\ ctrl' = "cancelled"
  /\ client' = onerror(client, "connecting")
  /\ reply' = NULL
  /\ UNCHANGED <<memo, page, taken, entry, req, env, pc, slot, backend, events, db, log, chatVars>>

\* The route is done with the request it had.
routeDone == pc \in {"closed", "errored", "rejected"}

\* The EventSource requests the stream URL again: its own reconnection, or
\* the first request of an EventSource that start() created in a timer. A
\* new run of GET begins, with the session id and parameters of the URL. The
\* browser's reconnection delay is longer than the page's timeout.
Rerequest ==
  /\ entry = "GET"
  /\ client.eventSource = "connecting"
  /\ reply = NULL /\ routeDone
  /\ page.timeouts = 0
  /\ Len(db) < MaxRuns
  /\ pc' = "received"
  /\ slot' = [s \in Slots |-> IdleSlot]
  /\ backend' = [s \in Slots |-> "none"]
  /\ ctrl' = "none"
  /\ events' = [s \in Slots |-> <<>>]
  /\ taken' = [s \in Slots |-> 0]
  /\ UNCHANGED <<memo, client, page, entry, req, env, reply, db, log, chatVars>>

\* A reconnection attempt that the EventSource gives up on: readyState
\* CLOSED, and onerror calls handleDisconnection.
ReconnectFails ==
  /\ entry = "GET"
  /\ client.eventSource = "connecting"
  /\ reply = NULL /\ routeDone
  /\ client.timers < MaxTimers
  /\ LET c == onerror(client, "closed")
     IN  /\ client' = c
         /\ page' = pageOnError(page, client, c)
  /\ UNCHANGED <<memo, taken, entry, req, env, pc, reply, streamVars, db, log, chatVars>>

\* A setTimeout callback of handleDisconnection runs: this.start().
ReconnectTimer ==
  /\ entry = "GET"
  /\ client.timers > 0
  /\ client' = start([client EXCEPT !.timers = @ - 1])
  /\ UNCHANGED <<memo, page, taken, entry, req, env, pc, reply, streamVars, db, log, chatVars>>

\* The timeout that handleStreamEvent set runs: stopStream() on the client
\* the ref holds, isSubmitting off, loadHistory() up to its await, the
\* notification.
CompletionTimeout ==
  /\ entry = "GET"
  /\ page.timeouts > 0
  /\ page' = [page EXCEPT !.timeouts = @ - 1,
                          !.streamingClientRef = FALSE,
                          !.isSubmitting = FALSE,
                          !.isLoadingHistory = TRUE,
                          !.notification = Some("Vergleich erfolgreich abgeschlossen!")]
  /\ IF page.streamingClientRef
     THEN /\ client' = stop(client)
          /\ ctrl' = IF ctrl = "open" THEN "cancelled" ELSE ctrl
          /\ reply' = NULL
     ELSE UNCHANGED <<client, ctrl, reply>>
  /\ UNCHANGED <<memo, taken, entry, req, env, pc, slot, backend, events, db, log, chatVars>>

\* loadHistory after its await: getPromptHistory has returned the rows.
HistoryLoaded ==
  /\ entry = "GET"
  /\ page.isLoadingHistory
  /\ page' = [page EXCEPT !.isLoadingHistory = FALSE, !.history = Len(db)]
  /\ UNCHANGED <<memo, client, taken, entry, req, env, pc, reply, streamVars, db, log, chatVars>>

\* The route, its two adapters and a store that takes every write, with the
\* browser on the other end of the connection.
\* A step of slot s's adapter; the chunks of a session carry an increment.
SessionSlotStep(s) ==
  \/ StreamOpened(s)
  \/ StreamOpenFailed(s)
  \/ (slot[s].chunks < MaxSessionChunks /\ StreamChunk(s, <<"H", "i">>))
  \/ StreamEnd(s)
  \/ StreamError(s)

SessionNext ==
  \/ GETRequest
  \/ \E s \in Slots : SessionSlotStep(s)
  \/ AllSettled
  \/ SaveOk
  \/ ResponseArrives
  \/ \E s \in Slots : Deliver(s)
  \/ StreamEnds
  \/ ConnectionLost
  \/ Rerequest
  \/ ReconnectFails
  \/ ReconnectTimer
  \/ CompletionTimeout
  \/ HistoryLoaded

SessionSpec == SessionInit /\ [][SessionNext]_vars

\* A session whose connection stays up: the route with every kind of chunk,
\* the EventSource reading the stream, and the page.
UninterruptedNext ==
  \/ GETRequest
  \/ \E s \in Slots : SlotStep(s)
  \/ \E s \in Slots : BackendStall(s)
  \/ AllSettled
  \/ SaveOk
  \/ SaveFail
  \/ ResponseArrives
  \/ \E s \in Slots : Deliver(s)
  \/ CompletionTimeout
  \/ HistoryLoaded

UninterruptedSpec == SessionInit /\ [][UninterruptedNext]_vars

---------------------------------------------------------------------------
(* Vocabulary of the properties                                            *)

Last(q) == q[Len(q)]

Terminal == {"complete", "error"}

\* The request passed GET's validation: the route streams.
Accepted == entry = "GET" /\ GETValidation(req) = NULL

\* start() has returned or thrown: nothing more is enqueued.
Finished == pc \in {"closed", "errored"}

HasTerminal(s) == events[s] # <<>> /\ Last(events[s]).type \in Terminal

HasEvent(s, type) == \E i \in 1..Len(events[s]) : events[s][i].type = type

\* The increments of the token events of q, concatenated in order.
RECURSIVE deliveredText(_)
deliveredText(q) ==
  IF q = <<>> THEN <<>>
  ELSE (IF Head(q).type = "token" THEN Head(q).data.delta ELSE <<>>)
       \o deliveredText(Tail(q))

tokenEvents(q) == Cardinality({i \in 1..Len(q) : q[i].type = "token"})

responseOf(row, s) == IF s = "model1" THEN row.response1 ELSE row.response2

costOf(row, s) == IF s = "model1" THEN row.cost1 ELSE row.cost2

StoreFailed == "Fehler beim Speichern der Stream-Resultate" \in log

\* The id is not in the model table (read off the table itself).
Unregistered(modelId) == \A i \in 1..Len(ALL_MODELS) : ALL_MODELS[i].id # modelId

\* One start first, no start later, and nothing after a terminal event.
SlotEventsOrdered(q) ==
  \A i \in 1..Len(q) :
    /\ (i = 1) <=> (q[i].type = "start")
    /\ q[i].type \in Terminal => i = Len(q)

---------------------------------------------------------------------------
(* Properties                                                              *)

\* C1: for an accepted GET request, each slot's events are one start, then
\* token events, then exactly one terminal event (complete or error), and
\* nothing after it; once the stream is finished every slot has its start
\* and its terminal event.
C1_SlotEventSequence ==
  Accepted =>
    \A s \in Slots :
      /\ SlotEventsOrdered(events[s])
      /\ Finished => (HasTerminal(s) /\ events[s][1].type = "start")

\* C2: for the GET route, a history row exists (or its write is under way)
\* only when both slots have settled, completed or failed: never while a
\* slot is still opening or streaming.
C2_RecordOnlyAfterBothTerminal ==
  (entry = "GET" /\ (db # <<>> \/ pc = "saving")) => \A s \in Slots : Settled(s)

C2_Witness ==
  /\ entry = "GET" /\ Len(db) = 1
  /\ slot["model1"].st = "rejected" /\ slot["model2"].st = "fulfilled"

\* C3: a GET request never has more than one history row, and once both
\* slots have settled and the stream is finished without a store failure it
\* has exactly one, whatever the order and the outcomes of the two slots.
C3_ExactlyOneRecord ==
  entry = "GET" =>
    /\ Len(db) <= 1
    /\ (Finished /\ (\A s \in Slots : Settled(s)) /\ ~StoreFailed) => Len(db) = 1

C3_Witness ==
  /\ entry = "GET" /\ pc = "closed" /\ Len(db) = 1
  /\ \A s \in Slots : slot[s].st = "rejected" /\ HasEvent(s, "error")

\* What a completed slot returns when it is computed from nothing but the
\* slot's own delivered events q.
ownOutcome(q, s) ==
  [content |-> deliveredText(q),
   tokens |-> [input |-> 0, output |-> tokenEvents(q), total |-> tokenEvents(q)],
   cost |-> calculateLiveCost(0, tokenEvents(q), modelIdOf(s))]

\* C4: a step in which one slot's backend fails (the stream cannot be opened
\* or throws while streaming) changes nothing of the other slot: neither its
\* locals and promise, nor its backend stream, nor its events. And a slot
\* that completes after its sibling has failed returns the text, token
\* counts and cost given by its own increments alone.
C4_SiblingFailureIsolated ==
  [][\A s \in Slots :
       /\ (slot[s].st \in {"opening", "streaming"} /\ backend'[s] = "failed")
            => /\ slot'[Other(s)] = slot[Other(s)]
               /\ backend'[Other(s)] = backend[Other(s)]
               /\ events'[Other(s)] = events[Other(s)]
       /\ (slot[Other(s)].st = "rejected" /\ slot[s].st = "streaming"
             /\ slot'[s].st = "fulfilled")
            => slot'[s].value = Some(ownOutcome(events[s], s))
     ]_vars

C4_Witness ==
  /\ entry = "GET" /\ pc = "closed"
  /\ slot["model1"].st = "rejected" /\ backend["model1"] = "failed"
  /\ slot["model1"].outputTokens = 1
  /\ slot["model2"].st = "fulfilled"
  /\ slot["model2"].value[1].content = <<"H", "i", "!">>

\* The slot could not start: its model instance cannot be created.
InstanceFails(s) == ~createModelInstance(modelIdOf(s), env).ok

\* C5: when exactly one slot's model instance cannot be created, once the
\* stream is closed the error event is the failing slot's terminal event,
\* the sibling has its start and its terminal event, and (unless the store
\* failed) one row is persisted whose response and cost are null for the
\* failed slot.
C5_StartFailureScoped ==
  \A s \in Slots :
    (Accepted /\ pc = "closed" /\ InstanceFails(s) /\ ~InstanceFails(Other(s)))
      => /\ HasTerminal(s) /\ Last(events[s]).type = "error"
         /\ HasTerminal(Other(s)) /\ events[Other(s)][1].type = "start"
         /\ ~StoreFailed =>
              /\ Len(db) = 1
              /\ responseOf(db[1], s) = NULL /\ costOf(db[1], s) = NULL

\* C6: for an accepted GET request each slot eventually has a terminal
\* event, whatever its backend does.
C6_TerminalEventually ==
  \A s \in Slots : Accepted => <>HasTerminal(s)

\* C7: in the row of a GET request, for each slot: response and cost are
\* both null or both non-null; both null when the slot's events end with an
\* error; and when they end with complete, the response is the in-order
\* concatenation of the slot's increments and the cost is the one the
\* complete event carries.
C7_RowMatchesSlotOutcome ==
  entry = "GET" =>
    \A i \in 1..Len(db) : \A s \in Slots :
      /\ (responseOf(db[i], s) = NULL) <=> (costOf(db[i], s) = NULL)
      /\ HasEvent(s, "error") =>
           (responseOf(db[i], s) = NULL /\ costOf(db[i], s) = NULL)
      /\ HasEvent(s, "complete") =>
           /\ responseOf(db[i], s) = Some(deliveredText(events[s]))
           /\ costOf(db[i], s) = Some(Last(events[s]).data.cost)

C7_Witness ==
  /\ entry = "GET" /\ Len(db) = 1
  /\ HasEvent("model1", "error") /\ tokenEvents(events["model1"]) = 1
  /\ db[1].response1 = NULL /\ db[1].cost1 = NULL
  /\ HasEvent("model2", "complete")
  /\ db[1].response2 = Some(<<"!", "H", "i">>)
  /\ db[1].cost2 # Some(0)

\* A slot that was still active when the consumer went away: nothing can be
\* enqueued after the disconnect, so at the end it has no terminal event.
\* Its promise rejected on an enqueue or on its backend's own failure.
CutOff(s) == slot[s].st = "rejected" /\ ~HasTerminal(s)

\* C8: when the consumer disconnected while a slot was still active, the
\* finished request has exactly one row (unless the store failed), and for
\* each slot that was cut off after delivering increments the row holds the
\* partial text and the cost the slot had reached.
C8_DisconnectPersistsPartial ==
  (entry = "GET" /\ ctrl = "cancelled" /\ Finished /\ ~StoreFailed)
    => /\ Len(db) = 1
       /\ \A s \in Slots :
            (CutOff(s) /\ tokenEvents(events[s]) >= 1) =>
              /\ responseOf(db[1], s) = Some(deliveredText(events[s]))
              /\ costOf(db[1], s) = Some(Last(events[s]).data.cost)

\* C9: the step in which the store write fails (the write ends and no row
\* appears) reports nothing to the consumer. GET: no event is enqueued and
\* an open stream is closed normally. createParallelChat: the call returns
\* success with both responses.
C9_StoreFailureNotReported ==
  [][(pc = "saving" /\ pc' # "saving" /\ db' = db)
       => IF entry = "GET"
          THEN /\ events' = events
               /\ ctrl = "open" => (ctrl' = "closed" /\ pc' = "closed")
          ELSE reply' = Some([success |-> TRUE, data |-> responses[1]])
     ]_vars

C9_Witness ==
  /\ entry = "GET" /\ StoreFailed /\ pc = "closed" /\ db = <<>>
  /\ \A s \in Slots : HasTerminal(s)

\* C10: a request naming a model id that is not in the model table is
\* rejected by the first step of GET and of createParallelChat: a 400 or a
\* failure result, no model instance, no slot task, no invoke, no event and
\* no row.
C10_UnknownModelRejected ==
  (entry \in {"GET", "createParallelChat"} /\ pc # "received"
     /\ (Unregistered(req.model1) \/ Unregistered(req.model2)))
    => /\ pc \in {"rejected", "returned"}
       /\ IF entry = "GET" THEN reply = Some([status |-> 400,
                                              body |-> GETValidation(req)[1]])
          ELSE reply # NULL /\ ~reply[1].success
       /\ \A s \in Slots : events[s] = <<>> /\ slot[s] = IdleSlot
                           /\ backend[s] = "none" /\ invoke[s].st = "none"
       /\ ctrl = "none"
       /\ db = <<>>

C10_Witness ==
  /\ entry = "GET" /\ pc = "rejected"
  /\ req.session /\ req.prompt = <<"h", "i">>
  /\ req.model1 = "gpt-4o-mini" /\ req.model2 = "no-such-model"
  /\ env.OPENAI_API_KEY

\* C11: every entry point (createParallelChat, createStreamingChat, GET)
\* turns down a prompt that is empty after trimming, before any slot task:
\* a whitespace-only prompt leads to no start event and no row.
C11_BlankPromptRejected ==
  (pc # "received" /\ trim(req.prompt) = <<>>)
    => /\ \A s \in Slots : ~HasEvent(s, "start") /\ invoke[s].st = "none"
       /\ db = <<>>

\* C12: createStreamingChat returns a failure result, and no stream URL,
\* whenever model1 or model2 is not in the model table.
C12_StreamingChatValidatesModels ==
  (entry = "createStreamingChat" /\ pc = "returned"
     /\ (Unregistered(req.model1) \/ Unregistered(req.model2)))
    => ~reply[1].success

\* The token events of q, in order.
tokensOf(q) == SelectSeq(q, LAMBDA e : e.type = "token")

\* The events of q after its start event.
afterStart(q) == SelectSeq(q, LAMBDA e : e.type # "start")

\* C13: within one slot of a streaming request, tokens.output never
\* decreases from one token event to the next, and tokens.input has the
\* same value in every event of the slot after its start event.
C13_UsageMonotone ==
  entry = "GET" =>
    \A s \in Slots :
      /\ \A i \in 1..(Len(tokensOf(events[s])) - 1) :
           tokensOf(events[s])[i].data.tokens.output
             <= tokensOf(events[s])[i + 1].data.tokens.output
      /\ \A i, j \in 1..Len(afterStart(events[s])) :
           afterStart(events[s])[i].data.tokens.input
             = afterStart(events[s])[j].data.tokens.input

\* A slot that delivered two increments and then its terminal event.
C13_Witness ==
  \E s \in Slots : tokenEvents(events[s]) = 2 /\ HasTerminal(s)

\* C14: the terminal event of a slot carries the slot's current usage and
\* cost: the tokens and cost of the slot's most recent token event, or zero
\* tokens and zero cost when the slot has no token event.
C14_TerminalCarriesUsage ==
  \A s \in Slots :
    HasTerminal(s) =>
      LET last == Last(events[s])
          toks == tokensOf(events[s])
      IN  IF toks = <<>>
          THEN /\ last.data.tokens = [input |-> 0, output |-> 0, total |-> 0]
               /\ last.data.cost = 0
          ELSE /\ last.data.tokens = Last(toks).data.tokens
               /\ last.data.cost = Last(toks).data.cost

\* A slot that fails after a token event with a non-zero cost, and a slot
\* that completes without any token event.
C14_Witness ==
  /\ \E s \in Slots : /\ HasTerminal(s) /\ Last(events[s]).type = "error"
                      /\ tokenEvents(events[s]) >= 1
                      /\ Last(events[s]).data.cost > 0
  /\ \E s \in Slots : /\ HasTerminal(s) /\ Last(events[s]).type = "complete"
                      /\ tokenEvents(events[s]) = 0

\* C15: in every token and terminal event that streamModel emits for a
\* slot, the usage is createTokenUsage(prompt, accumulated text, model id):
\* tokens.input is the estimate of the prompt, tokens.output the estimate of
\* the text delivered so far.
C15_UsageIsTokenEstimate ==
  (entry = "GET" /\ Accepted) =>
    \A s \in Slots :
      HasEvent(s, "start") =>
        \A i \in 1..Len(events[s]) :
          events[s][i].type # "start" =>
            events[s][i].data.tokens
              = createTokenUsage(req.prompt,
                                 deliveredText(SubSeq(events[s], 1, i)),
                                 modelIdOf(s))

\* The slot's backend completed normally after at least one non-empty increment.
CompletedWithText(s) == HasEvent(s, "complete") /\ tokenEvents(events[s]) >= 1

\* The live cost of any positive number of increments is strictly positive
\* for every registered model.
LiveCostPositive ==
  \A i \in 1..Len(ALL_MODELS) : \A n \in 1..MaxChunks :
    calculateLiveCost(0, n, ALL_MODELS[i].id) > 0

\* C16: when both backends complete normally after streaming at least one
\* non-empty increment each, the row holds for each slot the in-order
\* concatenation of the slot's increments and both costs are strictly
\* positive; the cost of any positive number of increments is strictly
\* positive for every registered model.
C16_BothCompleteRow ==
  /\ (entry = "GET" /\ \A s \in Slots : CompletedWithText(s)) =>
       \A i \in 1..Len(db) : \A s \in Slots :
         /\ responseOf(db[i], s) = Some(deliveredText(events[s]))
         /\ costOf(db[i], s) # NULL
         /\ costOf(db[i], s)[1] > 0
  /\ LiveCostPositive

\* Two different models completed with text and the row is written.
C16_Witness ==
  /\ entry = "GET" /\ Len(db) = 1
  /\ \A s \in Slots : CompletedWithText(s)
  /\ req.model1 # req.model2
  /\ db[1].response1 = Some(<<"H", "i", "!">>)
  /\ db[1].response2 = Some(<<"!">>)

\* A call of calculateCost or calculateLiveCost has returned or thrown.
CostCalled ==
  entry = "lib" /\ pc = "called" /\ req.fn \in {"calculateCost", "calculateLiveCost"}

\* The total cost a successful cost call handed back.
totalOf(r) == IF "value" \in DOMAIN r THEN r.value ELSE r.totalCost

\* C17: for a registered model id and a fixed input token count, the total
\* cost of calculateCost and of calculateLiveCost, as rounded to 6 decimals,
\* does not decrease when the output token count grows.
C17_CostMonotoneInOutput ==
  (CostCalled /\ reply[1].ok) =>
    \A o \in 0..req.tokenUsage.output :
      calculateLiveCost(req.tokenUsage.input, o, req.modelId) <= totalOf(reply[1])

\* A call with the largest output count, across a rounding midpoint.
C17_Witness ==
  /\ CostCalled /\ reply[1].ok
  /\ req.modelId = "gpt-3.5-turbo"
  /\ req.tokenUsage = [input |-> 1, output |-> MaxUsageTokens,
                       total |-> 1 + MaxUsageTokens]
  /\ totalOf(reply[1]) > calculateLiveCost(1, 0, "gpt-3.5-turbo")

\* C18 as stated: on the returned 6-decimal values of calculateCost,
\* totalCost = inputCost + outputCost.
C18_TotalIsSumOfRounded ==
  (entry = "lib" /\ pc = "called" /\ req.fn = "calculateCost" /\ reply[1].ok)
    => reply[1].totalCost = reply[1].inputCost + reply[1].outputCost

\* C18, amended: totalCost is the 6-decimal rounding of the unrounded sum, so
\* on the returned values it differs from inputCost + outputCost by at most
\* one unit of the sixth decimal place.
C18_TotalWithinOneUnit ==
  (entry = "lib" /\ pc = "called" /\ req.fn = "calculateCost" /\ reply[1].ok)
    => LET d == reply[1].totalCost - (reply[1].inputCost + reply[1].outputCost)
       IN  d \in {-1, 0, 1}

\* 0.00000045 and 0.0000012 round to 0 and 0.000001, their sum to 0.000002.
C18_Witness ==
  /\ entry = "lib" /\ pc = "called" /\ req.fn = "calculateCost"
  /\ req.modelId = "gpt-4o-mini"
  /\ req.tokenUsage = [input |-> 3, output |-> 2, total |-> 5]
  /\ reply = Some([ok |-> TRUE, inputTokens |-> 3, outputTokens |-> 2,
                   inputCost |-> 0, outputCost |-> 1, totalCost |-> 2])

\* C19: calculateCost and calculateLiveCost throw the unknown-model error,
\* and hand back no cost, exactly when the model id is not in the model
\* table; for a registered id they return a value.
C19_UnknownModelThrows ==
  CostCalled =>
    /\ reply[1].ok <=> ~Unregistered(req.modelId)
    /\ ~reply[1].ok =>
         reply[1] = [ok |-> FALSE, error |-> "Unknown model for cost calculation"]
    /\ reply[1].ok =>
         \/ req.fn = "calculateCost" /\ reply[1].totalCost \in Nat
         \/ req.fn = "calculateLiveCost" /\ reply[1].value \in Nat

\* calculateLiveCost has thrown for an id that is not in the table.
C19_Witness ==
  /\ CostCalled /\ req.fn = "calculateLiveCost"
  /\ req.modelId = "no-such-model"
  /\ req.tokenUsage.output > 0
  /\ ~reply[1].ok

\* The positions of text that hold a character other than whitespace.
inkOf(text) == {i \in 1..Len(text) : text[i] \notin {" ", "\n", "\t"}}

\* The length of text without its leading and trailing whitespace.
trimmedLength(text) ==
  IF inkOf(text) = {} THEN 0
  ELSE LET first == CHOOSE i \in inkOf(text) : \A j \in inkOf(text) : i <= j
           last  == CHOOSE i \in inkOf(text) : \A j \in inkOf(text) : j <= i
       IN  last - first + 1

\* The least k with k * tenths / 10 >= n: ceil(n / 3.8) is ceilOf(n, 38).
ceilOf(n, tenths) ==
  CHOOSE k \in 0..n : tenths * k >= 10 * n /\ (k = 0 \/ tenths * (k - 1) < 10 * n)

OpenAIFamily ==
  {"gpt-4o", "gpt-4o-mini", "gpt-4-turbo", "gpt-3.5-turbo", "my-openai-model"}

AnthropicFamily ==
  {"claude-3-5-sonnet-20241022", "claude-3-5-haiku-20241022",
   "claude-3-opus-20240229", "x-anthropic"}

\* C20: countTokens never throws; it returns 0 for an empty or
\* whitespace-only text whatever the model id, and for a text of trimmed
\* length n it returns ceil(n/4) for an OpenAI-family id, ceil(n/3.8) for an
\* Anthropic-family id and ceil(n/4) for any other id.
C20_CountTokensByFamily ==
  (entry = "lib" /\ pc = "called" /\ req.fn = "countTokens") =>
    LET n == trimmedLength(req.text)
    IN  /\ reply[1].ok
        /\ reply[1].value =
             IF n = 0 THEN 0
             ELSE IF req.modelId \in OpenAIFamily THEN ceilOf(n, 40)
             ELSE IF req.modelId \in AnthropicFamily THEN ceilOf(n, 38)
             ELSE ceilOf(n, 40)

\* Four characters between whitespace are two Anthropic tokens.
C20_Witness ==
  /\ entry = "lib" /\ pc = "called" /\ req.fn = "countTokens"
  /\ req.modelId = "x-anthropic"
  /\ req.text = <<" ", "a", "a", " ", "a">>
  /\ reply = Some([ok |-> TRUE, value |-> 2])

EmptyChunkSeen(s) ==
  /\ slot[s].st = "streaming" /\ slot'[s].st = "streaming"
  /\ slot'[s].chunks = slot[s].chunks + 1
  /\ slot'[s].fullContent = slot[s].fullContent

\* C30: in the streaming route, the k-th token event of a slot carries
\* tokens.output = k, the terminal event carries the number of token events
\* of the slot, and a backend chunk with an empty delta produces no event
\* and changes no counter.
C30_OutputCountsTokenEvents ==
  /\ [](entry = "GET" =>
         \A s \in Slots :
           /\ \A k \in 1..Len(tokensOf(events[s])) :
                tokensOf(events[s])[k].data.tokens.output = k
           /\ HasTerminal(s) =>
                Last(events[s]).data.tokens.output = tokenEvents(events[s]))
  /\ [][\A s \in Slots :
          EmptyChunkSeen(s) =>
            /\ events' = events
            /\ slot'[s].outputTokens = slot[s].outputTokens
            /\ slot'[s].tokenCount = slot[s].tokenCount
            /\ slot'[s].inputTokens = slot[s].inputTokens]_vars

\* An empty chunk came between the two token events of a completed slot.
C30_Witness ==
  \E s \in Slots :
    /\ HasEvent(s, "complete")
    /\ tokenEvents(events[s]) = MaxChunks - 1
    /\ slot[s].chunks = MaxChunks
    /\ Last(events[s]).data.tokens.output = MaxChunks - 1

\* A delete call has returned while the store was answering.
DeleteCalled ==
  /\ entry = "history" /\ pc = "called" /\ env.DATABASE_UP
  /\ req.fn \in {"deletePromptHistoryItem", "deleteMultipleHistoryItems"}

\* C24: deleting is idempotent: deletePromptHistoryItem(id) and
\* deleteMultipleHistoryItems(ids) return a success result also when the id
\* (or some of the ids) has no row, so a second delete of the same id
\* succeeds like the first.
C24_DeleteIdempotent ==
  DeleteCalled => reply[1].success

\* The rows of the store that the search selects.
Matching(search) ==
  {i \in 1..Len(db) :
     \/ search = NULL \/ search = Some(<<>>)
     \/ \E t \in {Some(db[i].content), db[i].response1, db[i].response2} :
          t # NULL /\ includes(t[1], search[1])}

\* q lists rows of the store, each at most once, newest first.
NewestFirst(q) ==
  /\ \A i \in 1..Len(q) : \E j \in 1..Len(db) : q[i] = db[j]
  /\ \A i, j \in 1..Len(q) : i # j => q[i].id # q[j].id
  /\ \A i \in 1..(Len(q) - 1) : q[i].createdAt >= q[i + 1].createdAt

\* C25: getPromptHistoryPaginated(page, limit, search) with page >= 1 and
\* limit >= 1 over a store with n matching rows returns the rows ranked
\* (page-1)*limit+1 .. min(page*limit, n) of a newest-first ranking of the
\* matching rows, total = n, hasMore exactly when page*limit < n; and it
\* leaves the store as it is.
C25_PaginationWindow ==
  /\ []((entry = "history" /\ pc = "called" /\ env.DATABASE_UP
          /\ req.fn = "getPromptHistoryPaginated") =>
         LET n     == Cardinality(Matching(req.search))
             first == (req.page - 1) * req.limit + 1
             last  == IF req.page * req.limit < n THEN req.page * req.limit ELSE n
             items == reply[1].data.items
         IN  /\ reply[1].success
             /\ reply[1].data.total = n
             /\ reply[1].data.hasMore <=> (req.page * req.limit < n)
             /\ Len(items) = (IF last >= first THEN last - first + 1 ELSE 0)
             /\ \E ranking \in [1..n -> {db[i] : i \in Matching(req.search)}] :
                  /\ NewestFirst(ranking)
                  /\ \A k \in 1..Len(items) : items[k] = ranking[first + k - 1])
  /\ [][(entry = "history" /\ pc = "idle" /\ pc' = "called"
          /\ req'.fn = "getPromptHistoryPaginated") => db' = db]_vars

\* The second page of three matching rows, two a page: one row, no more.
C25_Witness ==
  /\ entry = "history" /\ pc = "called" /\ env.DATABASE_UP
  /\ req.fn = "getPromptHistoryPaginated"
  /\ req.page = 2 /\ req.limit = 2 /\ req.search = Some(<<"h">>)
  /\ Len(db) = MaxRows
  /\ reply[1].data.total = 3
  /\ Len(reply[1].data.items) = 1
  /\ ~reply[1].data.hasMore

\* C22: the SSE client does not retry forever: when the connection keeps
\* closing, also after it had opened, a started client reports a terminal
\* connectivity error through onError after a bounded number of attempts
\* (unless its caller stops it).
C22_ReconnectsBounded ==
  (client.eventSource \in {"connecting", "open", "closed"})
    ~> ("Verbindung zum Stream verloren" \in client.reported \/ client.stopped)

\* C28: after stop() has returned and until the caller calls start() again,
\* the client has no EventSource, pending reconnect timer or not.
C28_NoConnectionAfterStop ==
  client.stopped => client.eventSource = "null"

---------------------------------------------------------------------------
(* Claims about a streaming session: route, connection and page            *)

\* The queue of a ReadableStream created without a queuing strategy is full
\* with one chunk.
highWaterMark == 1

\* The events enqueued on the open stream and not yet read.
buffered == IF ctrl = "open"
            THEN (Len(events["model1"]) - taken["model1"])
                   + (Len(events["model2"]) - taken["model2"])
            ELSE 0

\* C23: the number of events enqueued for a connection and not yet taken by
\* the consumer never exceeds the bound of the queue: an emit on a full queue
\* waits instead of enqueuing.
C23_BufferBounded ==
  buffered <= highWaterMark

\* C26: one session writes at most one history record, also when the client
\* requests the stream URL again after the connection was lost.
C26_OneRecordPerSession ==
  Len(db) <= 1

\* The page has handled a terminal event of slot s in this run of the stream.
terminalHandled(s) ==
  \E i \in 1..taken[s] : events[s][i].type \in Terminal

\* C27: once the page has handled a terminal event of both slots, in any
\* order and of any kind, it has detected the joint completion: the wrap-up
\* (stop the client, clear isSubmitting, reload the history) is scheduled or
\* done.
C27_JointCompletionDetected ==
  (\A s \in Slots : terminalHandled(s))
    => (page.timeouts > 0 \/ ~page.isSubmitting)

---------------------------------------------------------------------------
(* Claims about updateStreamState                                          *)

\* The fields of a slot of the StreamState that show its result.
resultOf(state, s) ==
  [content |-> state[s].content, tokens |-> state[s].tokens,
   cost |-> state[s].cost, error |-> state[s].error]

\* C29: once updateStreamState has processed a complete or error event of a
\* slot, no later event of that slot changes the slot's content, tokens,
\* cost or error, as long as the state is not re-created.
C29_TerminalSlotImmutable ==
  [][\A s \in Slots :
       ((\E type \in Terminal : HasEvent(s, type))
          /\ Len(events'[s]) >= Len(events[s]))
         => resultOf(page'.streamState, s) = resultOf(page.streamState, s)]_vars

---------------------------------------------------------------------------
(* Claims about TokenUsage                                                 *)

\* input and output are natural numbers and total is their sum.
WellFormed(u) ==
  u.input \in Nat /\ u.output \in Nat /\ u.total = u.input + u.output

UsageCalled(fn) == entry = "lib" /\ pc = "called" /\ req.fn = fn

\* C31: every TokenUsage in an event of the stream route, and every one that
\* createTokenUsage or updateTokenUsage returns (the latter given a well-formed
\* usage), has natural input and output and total = input + output;
\* updateTokenUsage keeps input and does not lower output.
C31_UsageWellFormed ==
  /\ \A s \in Slots : \A i \in 1..Len(events[s]) :
       WellFormed(events[s][i].data.tokens)
  /\ UsageCalled("createTokenUsage") => WellFormed(reply[1].value)
  /\ (UsageCalled("updateTokenUsage") /\ WellFormed(req.currentUsage))
       => /\ WellFormed(reply[1].value)
          /\ reply[1].value.input = req.currentUsage.input
          /\ reply[1].value.output >= req.currentUsage.output

\* updateTokenUsage has added the tokens of a chunk to a usage that had
\* input and output.
C31_Witness ==
  /\ UsageCalled("updateTokenUsage")
  /\ req.currentUsage.input > 0 /\ req.currentUsage.output > 0
  /\ reply[1].value.output > req.currentUsage.output

---------------------------------------------------------------------------
(* Claims about the dispatch and the derived fields of updateStreamState   *)

\* C32: updateStreamState changes only the sub-state of the slot its event is
\* tagged with: an event for model1 leaves model2's sub-state as it was and
\* the other way round, whatever the event's type and however the two slots'
\* events interleave; an event tagged 'system' leaves the whole state as it
\* was.
C32_DispatchPerSlot ==
  [][/\ \A s \in Slots :
          events'[s] = events[s] => page'.streamState[s] = page.streamState[s]
     /\ events' = events => page'.streamState = page.streamState]_vars

\* The slots' events have interleaved: model1 has streamed text after model2
\* ended with an error.
C32_Witness ==
  /\ entry = "updateStreamState"
  /\ Len(events["model1"]) > 1 /\ events["model2"] # <<>>
  /\ page.streamState.model1.content # <<>>
  /\ page.streamState.model1.isStreaming
  /\ page.streamState.model1.error = NULL
  /\ page.streamState.model2.error # NULL
  /\ ~page.streamState.model2.isStreaming

\* C33: in every state that updateStreamState calls lead to from
\* createInitialStreamState(), isAnyStreaming tells whether model1 or model2
\* is streaming and totalCost is the sum of the two slots' costs.
C33_DerivedFields ==
  entry = "updateStreamState"
    => /\ page.streamState.isAnyStreaming
            = (page.streamState.model1.isStreaming
                 \/ page.streamState.model2.isStreaming)
       /\ page.streamState.totalCost
            = page.streamState.model1.cost + page.streamState.model2.cost

\* Both slots have a cost, one has ended and the other is streaming.
C33_Witness ==
  /\ entry = "updateStreamState"
  /\ page.streamState.model1.cost > 0 /\ page.streamState.model2.cost > 0
  /\ ~page.streamState.model1.isStreaming /\ page.streamState.model2.isStreaming
  /\ HasEvent("model1", "complete")

---------------------------------------------------------------------------
(* Claims about the page's reconstruction and the stored row               *)

\* The page has handled the complete event of slot s.
completeHandled(s) ==
  \E i \in 1..taken[s] : events[s][i].type = "complete"

\* C34: with the connection not interrupted, once updateStreamState has
\* processed, from the initial state, the events of a slot through its
\* complete event, the page's content of the slot is the text stored as the
\* slot's response and the page's cost of the slot is the stored cost.
C34_PageAgreesWithRow ==
  \A s \in Slots :
    (entry = "GET" /\ completeHandled(s) /\ db # <<>>)
      => /\ responseOf(db[1], s) = Some(page.streamState[s].content)
         /\ costOf(db[1], s) = Some(page.streamState[s].cost)

\* model1 completed after two increments with text, the page has handled its
\* complete event and the row is written.
C34_Witness ==
  /\ entry = "GET" /\ completeHandled("model1") /\ db # <<>>
  /\ tokenEvents(events["model1"]) > 1
  /\ page.streamState.model1.content = deliveredText(events["model1"])
  /\ page.streamState.model1.cost > 0

---------------------------------------------------------------------------
(* Claims about createParallelChat                                         *)

\* createParallelChat has returned for a request that passed the validation
\* and whose two model instances were created.
ChatReturned ==
  /\ entry = "createParallelChat" /\ pc = "returned"
  /\ chatValidation(req) = NULL
  /\ createModelInstance(req.model1, env).ok
  /\ createModelInstance(req.model2, env).ok

\* The response createParallelChat returned for slot s.
chatResponseOf(s) ==
  IF s = "model1" THEN reply[1].data.response1 ELSE reply[1].data.response2

\* The calls of prisma.prompt.create so far: those that wrote a row and the
\* one that was rejected.
writesAttempted ==
  Len(db) + (IF "Fehler beim Speichern in Datenbank" \in log THEN 1 ELSE 0)

\* C35: for a valid createParallelChat request whose two model instances are
\* created, the call returns success with two responses; a slot's response
\* has its error set exactly when its own invocation was rejected and holds
\* its own content otherwise, whatever the other invocation did, also when
\* both were rejected; and exactly one history write is attempted.
C35_ParallelChatIndependent ==
  ChatReturned
    => /\ reply[1].success
       /\ writesAttempted = 1
       /\ \A s \in Slots :
            /\ (chatResponseOf(s).error # NULL) = (invoke[s].st = "rejected")
            /\ invoke[s].st = "fulfilled"
                 => chatResponseOf(s).content
                      = orElse(invoke[s].value.content, invoke[s].value.text)
            /\ invoke[s].st = "rejected" => chatResponseOf(s).content = <<>>

\* model1's invocation was rejected, model2's resolved with text, and the
\* row is written.
C35_Witness ==
  /\ ChatReturned
  /\ invoke["model1"].st = "rejected" /\ invoke["model2"].st = "fulfilled"
  /\ chatResponseOf("model2").content # <<>>
  /\ db # <<>>

---------------------------------------------------------------------------
(* Claims about truncateToTokenLimit                                       *)

\* C36: truncateToTokenLimit returns the text unchanged when its token count
\* is within maxTokens, and otherwise a text whose token count for the same
\* model is at most maxTokens, for every text and every maxTokens >= 1.
C36_TruncatedFits ==
  UsageCalled("truncateToTokenLimit")
    => IF countTokens(req.text, req.modelId) <= req.maxTokens
       THEN reply[1].value = req.text
       ELSE countTokens(reply[1].value, req.modelId) <= req.maxTokens

---------------------------------------------------------------------------
(* Claims about parseTokenUsage                                            *)

\* C38: for every provider and every usage payload, also one that lacks some
\* of the provider's count fields, parseTokenUsage returns a TokenUsage with
\* total = input + output.
C38_ParsedUsageWellFormed ==
  UsageCalled("parseTokenUsage") => WellFormed(reply[1].value)

---------------------------------------------------------------------------
(* Claims about StreamTimeout                                              *)

\* C37: whatever start(), reset() and clear() calls are made on a
\* StreamTimeout, at most one timer is pending; onTimeout is called at most
\* once after a start() or reset() that no other call followed; and after
\* clear() it is not called, and no timer is left that could call it, until
\* start() or reset() is called again.
C37_OneTimer ==
  entry = "StreamTimeout"
    => /\ Cardinality(client.pending) <= 1
       /\ client.fired <= 1
       /\ client.lastCall \in {"none", "clear"}
            => client.fired = 0 /\ client.pending = {}

\* A timer was replaced by reset() before it ran, and the timer reset() set
\* has called onTimeout.
C37_Witness ==
  /\ entry = "StreamTimeout"
  /\ client.lastCall = "reset" /\ client.fired = 1
  /\ client.started > client.timeouts
  /\ client.timeouts > 0


====
